---- MODULE Spec2Model ----
(***************************************************************************)
(* Storage engine of rust-sql: disk manager, LRU replacer, buffer pool     *)
(* manager, page handles, slotted table page and table heap.               *)
(*                                                                         *)
(* Page bytes are modelled exactly, run-length encoded: a page is a        *)
(* sequence of runs [n, b] (n copies of byte b) in canonical form (no      *)
(* empty run, no two adjacent runs with the same byte), so equality of     *)
(* two encodings is equality of the byte arrays.                           *)
(*                                                                         *)
(* PageId is u64; INVALID_PAGE_ID = u64::MAX is written -1 here and is     *)
(* encoded as eight 0xFF bytes.  Multi-byte fields are little-endian.      *)
(*                                                                         *)
(* A panic (expect/unwrap/assert!/panic!) aborts the program: the model    *)
(* records its cause in `panic` and takes no further step.                 *)
(***************************************************************************)
EXTENDS Integers, Sequences, FiniteSets, TLC

\* ------------------------------------------------------------------ bounds

PoolSize == 2
MaxPages == 2
MaxTimestamp == 4
MaxHandles == 2
HeapMaxPages == 4
HeapMaxTimestamp == 10
MaxSlot == 1
PageMaxTuples == 2
IterMaxTimestamp == 18
DiskMaxPages == 2

\* width in bits of a page id and of a file offset in the overflow model
PageIdBits == 13

\* allocations that return an id in the overflow model
AllocMaxReturned == 3
LruMaxFrame == 2
LruMaxTimestamp == 7
MaxThreads == 2

\* ------------------------------------------------------- program constants

PAGE_SIZE == 4096
PAGE_SIZE_BYTES == 4096
INVALID_PAGE_ID == -1
DELETED_FLAG == 1
TABLE_PAGE_HEADER_SIZE == 16
TUPLE_INFO_SIZE == 6

FrameIds == 0 .. (PoolSize - 1)

\* ------------------------------------------------------------- byte arrays

RECURSIVE ByteLen(_)
ByteLen(runs) ==
    IF runs = <<>> THEN 0 ELSE Head(runs).n + ByteLen(Tail(runs))

Fill(n, b) == IF n <= 0 THEN <<>> ELSE << [n |-> n, b |-> b] >>

RECURSIVE Norm(_)
Norm(runs) ==
    IF runs = <<>> THEN <<>>
    ELSE IF Head(runs).n = 0 THEN Norm(Tail(runs))
    ELSE LET rest == Norm(Tail(runs)) IN
         IF rest # <<>> /\ Head(rest).b = Head(runs).b
         THEN << [n |-> Head(runs).n + Head(rest).n, b |-> Head(runs).b] >> \o Tail(rest)
         ELSE << Head(runs) >> \o rest

RECURSIVE TakeBytes(_, _)
TakeBytes(runs, k) ==
    IF k <= 0 \/ runs = <<>> THEN <<>>
    ELSE IF Head(runs).n <= k
         THEN << Head(runs) >> \o TakeBytes(Tail(runs), k - Head(runs).n)
         ELSE << [n |-> k, b |-> Head(runs).b] >>

RECURSIVE DropBytes(_, _)
DropBytes(runs, k) ==
    IF k <= 0 \/ runs = <<>> THEN runs
    ELSE IF Head(runs).n <= k
         THEN DropBytes(Tail(runs), k - Head(runs).n)
         ELSE << [n |-> Head(runs).n - k, b |-> Head(runs).b] >> \o Tail(runs)

\* data[off .. off + len)
Slice(data, off, len) == TakeBytes(DropBytes(data, off), len)

\* data[off .. off + |src|).copy_from_slice(src)
Splice(data, off, src) ==
    Norm(TakeBytes(data, off) \o src \o DropBytes(data, off + ByteLen(src)))

ByteAt(data, i) == Head(DropBytes(data, i)).b

\* [0; PAGE_SIZE]
EMPTY_BUFFER == Fill(PAGE_SIZE_BYTES, 0)

\* ------------------------------------------------------------ LruReplacer

NewReplacer ==
    [node_store |-> << >>, evictable_count |-> 0, current_timestamp |-> 0]

HasNode(r, f) == f \in DOMAIN r.node_store

StorePut(store, f, node) ==
    [x \in (DOMAIN store) \cup {f} |-> IF x = f THEN node ELSE store[x]]

StoreDel(store, f) == [x \in (DOMAIN store) \ {f} |-> store[x]]

EvictableNodes(r) == {f \in DOMAIN r.node_store : r.node_store[f].is_evictable}

\* mutant: max_by_key, the most recently used evictable node
MruVictim(r) ==
    CHOOSE f \in EvictableNodes(r) :
        \A g \in EvictableNodes(r) :
            r.node_store[f].last_accessed_timestamp
                >= r.node_store[g].last_accessed_timestamp

\* min_by_key over the evictable nodes; timestamps are unique
LruVictim(r) ==
    CHOOSE f \in EvictableNodes(r) :
        \A g \in EvictableNodes(r) :
            r.node_store[f].last_accessed_timestamp
                <= r.node_store[g].last_accessed_timestamp

\* returns [r, some, frame_id]
evict(r) ==
    IF EvictableNodes(r) # {}
    THEN LET f == LruVictim(r) IN
         [r |-> [r EXCEPT !.node_store = StoreDel(@, f),
                          !.evictable_count = @ - 1],
          some |-> TRUE, frame_id |-> f]
    ELSE [r |-> r, some |-> FALSE, frame_id |-> 0]

\* mutant: the counter is decremented whenever the node is present
pin_always_decrements(r, f) ==
    IF HasNode(r, f)
    THEN [r EXCEPT !.node_store[f].is_evictable = FALSE,
                   !.evictable_count = @ - 1]
    ELSE r

pin(r, f) ==
    IF HasNode(r, f) /\ r.node_store[f].is_evictable
    THEN [r EXCEPT !.node_store[f].is_evictable = FALSE,
                   !.evictable_count = @ - 1]
    ELSE r

unpin(r, f) ==
    IF HasNode(r, f) /\ ~r.node_store[f].is_evictable
    THEN [r EXCEPT !.node_store[f].is_evictable = TRUE,
                   !.evictable_count = @ + 1]
    ELSE r

\* a new node takes a second timestamp (current_timestamp() is called twice)
record_access(r, f) ==
    IF HasNode(r, f)
    THEN [r EXCEPT !.node_store[f].last_accessed_timestamp = r.current_timestamp,
                   !.current_timestamp = @ + 1]
    ELSE [r EXCEPT !.node_store =
                       StorePut(@, f, [is_evictable |-> TRUE,
                                       last_accessed_timestamp |-> r.current_timestamp + 1]),
                   !.evictable_count = @ + 1,
                   !.current_timestamp = @ + 2]

\* returns [r, panic]
\* mutant: the node is deleted but the counter is left alone
remove_keeps_count(r, f) ==
    IF HasNode(r, f)
    THEN IF r.node_store[f].is_evictable
         THEN [r |-> [r EXCEPT !.node_store = StoreDel(@, f)], panic |-> ""]
         ELSE [r |-> [r EXCEPT !.node_store = StoreDel(@, f)],
               panic |-> "replacer remove of a non-evictable frame"]
    ELSE [r |-> r, panic |-> ""]

remove(r, f) ==
    IF HasNode(r, f)
    THEN IF r.node_store[f].is_evictable
         THEN [r |-> [r EXCEPT !.node_store = StoreDel(@, f),
                               !.evictable_count = @ - 1],
               panic |-> ""]
         ELSE [r |-> [r EXCEPT !.node_store = StoreDel(@, f)],
               panic |-> "replacer remove of a non-evictable frame"]
    ELSE [r |-> r, panic |-> ""]

evictable_count(r) == r.evictable_count

\* what a direct caller of the replacer has seen: its last call, what evict
\* returned, and the frames in the order of their latest record_access
NoLruLog ==
    [op |-> "none", frame_id |-> 0, some |-> FALSE, order |-> <<>>]

\* ------------------------------------------------------------ DiskManager

\* the file holds pages 0 .. Len(file) - 1; file[p + 1] is page p
OnDisk(d, p) == p >= 0 /\ p < Len(d.file)

\* a page of the file filled up with zeros, as a write past it leaves it
PadPage(page) == Norm(page \o Fill(PAGE_SIZE_BYTES - ByteLen(page), 0))

\* seek(p * PAGE_SIZE_BYTES) and write_all(data): inside the file the bytes
\* are overwritten, past its end the gap reads as zeros; only the last page
\* of the file can be shorter than a page
FileWriteAt(file, p, data) ==
    IF ByteLen(data) = 0 THEN file
    ELSE IF p < Len(file)
    THEN [file EXCEPT ![p + 1] = IF ByteLen(data) >= ByteLen(@) THEN Norm(data)
                                 ELSE Splice(@, 0, data)]
    ELSE [i \in 1 .. (p + 1) |->
             IF i <= Len(file) THEN PadPage(file[i])
             ELSE IF i <= p THEN EMPTY_BUFFER
             ELSE Norm(data)]

\* DiskManager::write; data longer than a page is rejected
disk_write_result(data) ==
    IF ByteLen(data) > PAGE_SIZE_BYTES THEN "InvalidData" ELSE "ok"

disk_write(d, p, data) ==
    IF disk_write_result(data) # "ok" THEN d
    ELSE [d EXCEPT !.file = FileWriteAt(@, p, data)]

\* DiskManager::new: page 0 is zeroed
NewDisk == [last_allocated_pid |-> 0, file |-> << EMPTY_BUFFER >>]

\* an allocator that hands out again the lowest allocated id whose page
\* carries the tombstone; returns [d, page_id]
allocate_page_reusing_tombstone(d) ==
    LET dead == {q \in 1 .. d.last_allocated_pid :
                    ByteAt(d.file[q + 1], 0) = DELETED_FLAG}
    IN IF dead # {}
       THEN LET pid == CHOOSE q \in dead : \A r \in dead : q <= r IN
            [d |-> disk_write(d, pid, EMPTY_BUFFER), page_id |-> pid]
       ELSE LET pid == d.last_allocated_pid + 1 IN
            [d |-> disk_write([d EXCEPT !.last_allocated_pid = pid], pid,
                              EMPTY_BUFFER),
             page_id |-> pid]

\* returns [d, page_id]
allocate_page(d) ==
    LET pid == d.last_allocated_pid + 1 IN
    [d |-> disk_write([d EXCEPT !.last_allocated_pid = pid], pid, EMPTY_BUFFER),
     page_id |-> pid]

RECURSIVE Pow2(_)
Pow2(n) == IF n = 0 THEN 1 ELSE 2 * Pow2(n - 1)

\* DiskManager::calculate_offset with bits-wide integers: checked_mul;
\* returns [res, offset]
calculate_offset(page_id, bits) ==
    IF page_id * PAGE_SIZE_BYTES >= Pow2(bits)
    THEN [res |-> "ArithmeticOverflow", offset |-> 0]
    ELSE [res |-> "ok", offset |-> page_id * PAGE_SIZE_BYTES]

\* DiskManager::allocate_page with bits-wide page ids: `last_allocated_pid += 1`
\* panics on overflow in a build with overflow checks and wraps in one
\* without; the counter is stored before write() computes the offset;
\* returns [d, res, page_id]
allocate_page_w(d, bits, checks) ==
    LET raw == d.last_allocated_pid + 1
        pid == raw % Pow2(bits)
        d1 == [d EXCEPT !.last_allocated_pid = pid]
    IN IF raw >= Pow2(bits) /\ checks
       THEN [d |-> d, res |-> "panic", page_id |-> INVALID_PAGE_ID]
       ELSE IF calculate_offset(pid, bits).res # "ok"
       THEN [d |-> d1, res |-> "ArithmeticOverflow", page_id |-> INVALID_PAGE_ID]
       ELSE [d |-> disk_write(d1, pid, EMPTY_BUFFER), res |-> "ok", page_id |-> pid]

deallocate_page(d, p) ==
    [d EXCEPT !.file = FileWriteAt(@, p, Fill(1, DELETED_FLAG))]

disk_is_deleted(d, p) == ByteAt(d.file[p + 1], 0) = DELETED_FLAG

\* returns [res, data]: "err" (seek/read failure), "none" (tombstone) or "some"
disk_read(d, p) ==
    IF ~OnDisk(d, p) THEN [res |-> "err", data |-> <<>>]
    ELSE IF disk_is_deleted(d, p) THEN [res |-> "none", data |-> <<>>]
    ELSE IF ByteLen(d.file[p + 1]) < PAGE_SIZE_BYTES
    THEN [res |-> "err", data |-> <<>>]
    ELSE [res |-> "some", data |-> d.file[p + 1]]

\* what a direct caller of the DiskManager has seen and done: nothing yet
NoDiskLog ==
    [op |-> "none", res |-> "ok", page_id |-> INVALID_PAGE_ID, data |-> <<>>,
     allocated |-> <<>>, deallocated |-> {}, written |-> << >>]

\* -------------------------------------------------------------- PageFrame

NewFrame ==
    [page_id |-> INVALID_PAGE_ID, is_dirty |-> FALSE, pin_cnt |-> 0,
     data |-> Fill(PAGE_SIZE, 0)]

\* mutant: reset leaves the dirty flag and the bytes as they were
reset_keeps_bytes(frame) ==
    [frame EXCEPT !.page_id = INVALID_PAGE_ID, !.pin_cnt = 0]

reset(frame) ==
    [page_id |-> INVALID_PAGE_ID, is_dirty |-> FALSE, pin_cnt |-> 0,
     data |-> Fill(PAGE_SIZE, 0)]

\* PageFrame::write; the caller has checked offset + len <= PAGE_SIZE
frame_write(frame, offset, bytes) ==
    [frame EXCEPT !.data = Splice(@, offset, bytes)]

\* ------------------------------------------------------ BufferPoolManager

TablePut(pt, p, f) == [x \in (DOMAIN pt) \cup {p} |-> IF x = p THEN f ELSE pt[x]]

TableDel(pt, p) == [x \in (DOMAIN pt) \ {p} |-> pt[x]]

\* BufferPoolManager::new
NewBpm ==
    [frames |-> [f \in FrameIds |-> NewFrame],
     page_table |-> << >>,
     replacer |-> NewReplacer,
     free_list |-> [i \in 1 .. PoolSize |-> i - 1],
     disk_manager |-> NewDisk,
     panic |-> ""]

Panic(s, why) == [s EXCEPT !.panic = why]

Outcome(s) == IF s.panic = "" THEN "ok" ELSE "panic"

\* mutant: the victim's stale page-table record is not removed
get_free_frame_keeps_record(s) ==
    IF s.free_list # <<>>
    THEN [s |-> [s EXCEPT !.free_list = Tail(@)], frame_id |-> Head(s.free_list)]
    ELSE LET e == evict(s.replacer) IN
         IF ~e.some
         THEN [s |-> Panic(s, "Failed to evict a frame"), frame_id |-> 0]
         ELSE LET f == e.frame_id
                  frame == s.frames[f]
                  s1 == [s EXCEPT !.replacer = e.r]
              IN IF frame.pin_cnt # 0
                 THEN [s |-> Panic(s1, "evicted frame is pinned"), frame_id |-> f]
                 ELSE [s |-> [s1 EXCEPT
                                 !.disk_manager =
                                     IF frame.is_dirty
                                     THEN disk_write(@, frame.page_id, frame.data)
                                     ELSE @,
                                 !.frames[f] = [page_id |-> INVALID_PAGE_ID,
                                                is_dirty |-> FALSE, pin_cnt |-> 0,
                                                data |-> Fill(PAGE_SIZE, 0)]],
                       frame_id |-> f]

\* mutant: the replacer is asked first, the free list only when nothing is evictable
get_free_frame_evicts_first(s) ==
    LET e == evict(s.replacer) IN
    IF ~e.some
    THEN IF s.free_list # <<>>
         THEN [s |-> [s EXCEPT !.free_list = Tail(@)], frame_id |-> Head(s.free_list)]
         ELSE [s |-> Panic(s, "Failed to evict a frame"), frame_id |-> 0]
    ELSE LET f == e.frame_id
             frame == s.frames[f]
             s1 == [s EXCEPT !.replacer = e.r]
         IN IF frame.pin_cnt # 0
            THEN [s |-> Panic(s1, "evicted frame is pinned"), frame_id |-> f]
            ELSE [s |-> [s1 EXCEPT
                            !.disk_manager =
                                IF frame.is_dirty
                                THEN disk_write(@, frame.page_id, frame.data)
                                ELSE @,
                            !.page_table = TableDel(@, frame.page_id),
                            !.frames[f] = reset(frame)],
                  frame_id |-> f]

\* returns [s, frame_id]; s.panic is set when the function panicked
get_free_frame(s) ==
    IF s.free_list # <<>>
    THEN [s |-> [s EXCEPT !.free_list = Tail(@)], frame_id |-> Head(s.free_list)]
    ELSE LET e == evict(s.replacer) IN
         IF ~e.some
         THEN [s |-> Panic(s, "Failed to evict a frame"), frame_id |-> 0]
         ELSE LET f == e.frame_id
                  frame == s.frames[f]
                  s1 == [s EXCEPT !.replacer = e.r]
              IN IF frame.pin_cnt # 0
                 THEN [s |-> Panic(s1, "evicted frame is pinned"), frame_id |-> f]
                 ELSE [s |-> [s1 EXCEPT
                                 !.disk_manager =
                                     IF frame.is_dirty
                                     THEN disk_write(@, frame.page_id, frame.data)
                                     ELSE @,
                                 !.page_table = TableDel(@, frame.page_id),
                                 !.frames[f] = reset(frame)],
                       frame_id |-> f]

\* returns [s, frame_id, page_id]
create_page(s) ==
    LET a == allocate_page(s.disk_manager)
        g == get_free_frame([s EXCEPT !.disk_manager = a.d])
        f == g.frame_id
    IN IF g.s.panic # ""
       THEN [s |-> g.s, frame_id |-> f, page_id |-> a.page_id]
       ELSE [s |-> [g.s EXCEPT
                       !.page_table = TablePut(@, a.page_id, f),
                       !.frames[f] = [@ EXCEPT !.page_id = a.page_id,
                                               !.is_dirty = FALSE,
                                               !.pin_cnt = 1],
                       !.replacer = pin(record_access(@, f), f)],
             frame_id |-> f, page_id |-> a.page_id]

\* returns [s, frame_id, hit]
fetch_page_mut(s, page_id) ==
    IF page_id \in DOMAIN s.page_table
    THEN LET f == s.page_table[page_id] IN
         [s |-> [s EXCEPT !.frames[f].pin_cnt = @ + 1,
                          !.replacer = pin(record_access(@, f), f)],
          frame_id |-> f, hit |-> TRUE]
    ELSE LET g == get_free_frame(s)
             f == g.frame_id
         IN IF g.s.panic # ""
            THEN [s |-> g.s, frame_id |-> f, hit |-> FALSE]
            ELSE LET s1 == [g.s EXCEPT
                               !.page_table = TablePut(@, page_id, f),
                               !.frames[f] = [@ EXCEPT !.page_id = page_id,
                                                       !.is_dirty = FALSE,
                                                       !.pin_cnt = 1]]
                     rd == disk_read(s1.disk_manager, page_id)
                 IN IF rd.res = "err"
                    THEN [s |-> Panic(s1, "disk read failed"),
                          frame_id |-> f, hit |-> FALSE]
                    ELSE IF rd.res = "none"
                    THEN [s |-> Panic(s1, "disk read found no page"),
                          frame_id |-> f, hit |-> FALSE]
                    ELSE [s |-> [s1 EXCEPT !.frames[f] = frame_write(@, 0, rd.data)],
                          frame_id |-> f, hit |-> FALSE]

fetch_page(s, page_id) == fetch_page_mut(s, page_id)

\* mutant: the frame is made evictable on every unpin, not only at pin count 0
unpin_page_always_evictable(s, page_id, is_dirty) ==
    IF page_id \in DOMAIN s.page_table
    THEN LET f == s.page_table[page_id]
             s1 == [s EXCEPT !.frames[f].is_dirty = @ \/ is_dirty]
         IN IF s1.frames[f].pin_cnt = 0
            THEN Panic(s1, "pin count underflow")
            ELSE [s1 EXCEPT !.frames[f].pin_cnt = @ - 1,
                            !.replacer = unpin(@, f)]
    ELSE s

\* mutant: a release clears the pin count instead of decrementing it
unpin_page_clears_pins(s, page_id, is_dirty) ==
    IF page_id \in DOMAIN s.page_table
    THEN LET f == s.page_table[page_id]
             s1 == [s EXCEPT !.frames[f].is_dirty = @ \/ is_dirty]
         IN IF s1.frames[f].pin_cnt = 0
            THEN Panic(s1, "pin count underflow")
            ELSE [s1 EXCEPT !.frames[f].pin_cnt = 0, !.replacer = unpin(@, f)]
    ELSE s

\* mutant: a release stores its is_dirty argument instead of or-ing it in
unpin_page_overwrites_dirty(s, page_id, is_dirty) ==
    IF page_id \in DOMAIN s.page_table
    THEN LET f == s.page_table[page_id]
             s1 == [s EXCEPT !.frames[f].is_dirty = is_dirty]
         IN IF s1.frames[f].pin_cnt = 0
            THEN Panic(s1, "pin count underflow")
            ELSE LET s2 == [s1 EXCEPT !.frames[f].pin_cnt = @ - 1] IN
                 IF s2.frames[f].pin_cnt = 0
                 THEN [s2 EXCEPT !.replacer = unpin(@, f)]
                 ELSE s2
    ELSE s

\* mutant: a page that is not in the page table is looked up as frame 1
unpin_page_default_frame(s, page_id, is_dirty) ==
    LET f == IF page_id \in DOMAIN s.page_table THEN s.page_table[page_id] ELSE 1
        s1 == [s EXCEPT !.frames[f].is_dirty = @ \/ is_dirty]
    IN IF s1.frames[f].pin_cnt = 0
       THEN IF page_id \in DOMAIN s.page_table
            THEN Panic(s1, "pin count underflow")
            ELSE s1
       ELSE LET s2 == [s1 EXCEPT !.frames[f].pin_cnt = @ - 1] IN
            IF s2.frames[f].pin_cnt = 0
            THEN [s2 EXCEPT !.replacer = unpin(@, f)]
            ELSE s2

unpin_page(s, page_id, is_dirty) ==
    IF page_id \in DOMAIN s.page_table
    THEN LET f == s.page_table[page_id]
             s1 == [s EXCEPT !.frames[f].is_dirty = @ \/ is_dirty]
         IN IF s1.frames[f].pin_cnt = 0
            THEN Panic(s1, "pin count underflow")
            ELSE LET s2 == [s1 EXCEPT !.frames[f].pin_cnt = @ - 1] IN
                 IF s2.frames[f].pin_cnt = 0
                 THEN [s2 EXCEPT !.replacer = unpin(@, f)]
                 ELSE s2
    ELSE s

\* mutant: the page is dropped from memory but not tombstoned on disk
delete_page_keeps_disk_page(s, page_id) ==
    IF page_id \notin DOMAIN s.page_table THEN s
    ELSE LET f == s.page_table[page_id] IN
         IF s.frames[f].pin_cnt > 0
         THEN Panic(s, "Cannot delete page when page is pinned")
         ELSE LET rm == remove(unpin(s.replacer, f), f) IN
              IF rm.panic # ""
              THEN Panic([s EXCEPT !.replacer = rm.r], rm.panic)
              ELSE [s EXCEPT !.replacer = rm.r,
                             !.page_table = TableDel(@, page_id),
                             !.free_list = Append(@, f),
                             !.frames[f] = reset(@)]

\* mutant: the deleted page's frame is not returned to the free list
delete_page_leaks_frame(s, page_id) ==
    IF page_id \notin DOMAIN s.page_table THEN s
    ELSE LET f == s.page_table[page_id] IN
         IF s.frames[f].pin_cnt > 0
         THEN Panic(s, "Cannot delete page when page is pinned")
         ELSE LET rm == remove(unpin(s.replacer, f), f) IN
              IF rm.panic # ""
              THEN Panic([s EXCEPT !.replacer = rm.r], rm.panic)
              ELSE [s EXCEPT !.replacer = rm.r,
                             !.page_table = TableDel(@, page_id),
                             !.disk_manager = deallocate_page(@, page_id),
                             !.frames[f] = reset(@)]

delete_page(s, page_id) ==
    IF page_id \notin DOMAIN s.page_table THEN s
    ELSE LET f == s.page_table[page_id] IN
         IF s.frames[f].pin_cnt > 0
         THEN Panic(s, "Cannot delete page when page is pinned")
         ELSE LET rm == remove(unpin(s.replacer, f), f) IN
              IF rm.panic # ""
              THEN Panic([s EXCEPT !.replacer = rm.r], rm.panic)
              ELSE [s EXCEPT !.replacer = rm.r,
                             !.page_table = TableDel(@, page_id),
                             !.free_list = Append(@, f),
                             !.disk_manager = deallocate_page(@, page_id),
                             !.frames[f] = reset(@)]

capacity(s) == PoolSize

free_frame_count(s) == Len(s.free_list) + evictable_count(s.replacer)

\* ---------------------------------------------- the miss path, by statement

\* no fetch is under way
NoEviction ==
    [pc |-> "idle", kind |-> "none", page_id |-> INVALID_PAGE_ID, frame_id |-> 0,
     victim |-> INVALID_PAGE_ID, bytes |-> <<>>, dirty |-> FALSE]

\* get_free_frame: replacer.evict() and the assertion on the victim's pin count
evict_victim(s) ==
    LET e == evict(s.replacer) IN
    IF ~e.some
    THEN [s |-> Panic(s, "Failed to evict a frame"), frame_id |-> 0]
    ELSE IF s.frames[e.frame_id].pin_cnt # 0
    THEN [s |-> Panic([s EXCEPT !.replacer = e.r], "evicted frame is pinned"),
          frame_id |-> e.frame_id]
    ELSE [s |-> [s EXCEPT !.replacer = e.r], frame_id |-> e.frame_id]

\* mutant: the dirty victim is not written back
write_back_skipped(s, f) == s

\* get_free_frame: if frame.is_dirty() { disk.write(frame.page_id(), frame.data()) }
write_back(s, f) ==
    IF s.frames[f].is_dirty
    THEN [s EXCEPT !.disk_manager = disk_write(@, s.frames[f].page_id, s.frames[f].data)]
    ELSE s

\* get_free_frame: page_table.remove(&frame.page_id())
remove_stale(s, f) == [s EXCEPT !.page_table = TableDel(@, s.frames[f].page_id)]

\* get_free_frame: frame.reset()
reset_frame(s, f) == [s EXCEPT !.frames[f] = reset(@)]

\* fetch_page_mut: page_table.insert, set_page_id, set_dirty(false), set_pin_count(1)
install_page(s, f, page_id) ==
    [s EXCEPT !.page_table = TablePut(@, page_id, f),
              !.frames[f] = [@ EXCEPT !.page_id = page_id,
                                      !.is_dirty = FALSE,
                                      !.pin_cnt = 1]]

\* fetch_page_mut: disk.read(page_id).unwrap().unwrap(), page_frame.write(0, ..)
read_page(s, f, page_id) ==
    LET rd == disk_read(s.disk_manager, page_id) IN
    IF rd.res = "err" THEN Panic(s, "disk read failed")
    ELSE IF rd.res = "none" THEN Panic(s, "disk read found no page")
    ELSE [s EXCEPT !.frames[f] = frame_write(@, 0, rd.data)]

\* ------------------------------------------------------------------ threads

Threads == 1 .. MaxThreads

\* a thread that is in no BufferPoolManager call and holds no handle
NoThread ==
    [pc |-> "idle", kind |-> "none", page_id |-> INVALID_PAGE_ID, frame_id |-> 0,
     found |-> FALSE, pin_cnt |-> 0]

\* -------------------------------------------------------------- TablePage

\* a u16 / a PageId as bytes (little-endian); page ids other than INVALID_PAGE_ID
\* stay below 2^16 within the bounds
U16Bytes(v) ==
    Norm(<< [n |-> 1, b |-> v % 256], [n |-> 1, b |-> (v \div 256) % 256] >>)

GetU16(data, off) == ByteAt(data, off) + 256 * ByteAt(data, off + 1)

PageIdBytes(p) ==
    IF p = INVALID_PAGE_ID THEN Fill(8, 255) ELSE Norm(U16Bytes(p) \o Fill(6, 0))

GetPageId(data, off) ==
    IF Slice(data, off, 8) = Fill(8, 255) THEN INVALID_PAGE_ID ELSE GetU16(data, off)

\* TablePageHeader { next_page_id: u64, tuple_cnt: u16, deleted_tuple_cnt: u16, _padding }
next_page_id(data) == GetPageId(data, 0)

tuple_count(data) == GetU16(data, 8)

deleted_tuple_count(data) == GetU16(data, 10)

\* TupleInfo { offset: u16, size_bytes: u16, metadata: { is_deleted: u8, _padding } }
TupleInfoBytes(offset, size_bytes, is_deleted) ==
    Norm(U16Bytes(offset) \o U16Bytes(size_bytes)
         \o << [n |-> 1, b |-> is_deleted], [n |-> 1, b |-> 0] >>)

\* slot_array()[i]
SlotAt(data, i) ==
    LET o == TABLE_PAGE_HEADER_SIZE + i * TUPLE_INFO_SIZE IN
    [offset |-> GetU16(data, o), size_bytes |-> GetU16(data, o + 2),
     is_deleted |-> ByteAt(data, o + 4)]

init_header(data, next) ==
    Splice(data, 0, Norm(PageIdBytes(next) \o Fill(8, 0)))

set_next_page_id(data, next) == Splice(data, 0, PageIdBytes(next))

\* mutant: the free space is taken to end at PAGE_SIZE whatever the slots say
get_next_tuple_offset_from_page_end(data, tuple_size, checks) ==
    LET tuple_offset == PAGE_SIZE - tuple_size IN
    IF tuple_offset < 0
    THEN [res |-> "OutOfBounds", offset |-> 0]
    ELSE IF TABLE_PAGE_HEADER_SIZE + TUPLE_INFO_SIZE * (tuple_count(data) + 1)
              > tuple_offset
         THEN [res |-> "OutOfBounds", offset |-> 0]
         ELSE [res |-> "ok", offset |-> tuple_offset]

\* returns [res, offset]. slot_end_offset - tuple_size is a usize subtraction:
\* with overflow checks (debug builds) an underflow panics, without them it
\* wraps, the bound check passes and the offset is truncated to u16
get_next_tuple_offset(data, tuple_size, checks) ==
    LET cnt == tuple_count(data)
        slot_end_offset == IF cnt = 0 THEN PAGE_SIZE ELSE SlotAt(data, cnt - 1).offset
        tuple_offset == slot_end_offset - tuple_size
    IN IF tuple_offset < 0
       THEN IF checks
            THEN [res |-> "panic", offset |-> 0]
            ELSE [res |-> "ok", offset |-> tuple_offset % 65536]
       ELSE IF TABLE_PAGE_HEADER_SIZE + TUPLE_INFO_SIZE * (cnt + 1) > tuple_offset
            THEN [res |-> "OutOfBounds", offset |-> 0]
            ELSE [res |-> "ok", offset |-> tuple_offset % 65536]

validate_record_id(data, page_id, rid) ==
    ~(rid.page_id # page_id \/ rid.slot_id >= tuple_count(data))

\* TablePage::insert_tuple; returns [res, data, rid]
insert_tuple(data, page_id, is_deleted, tuple, checks) ==
    LET tuple_size == ByteLen(tuple)
        o == get_next_tuple_offset(data, tuple_size, checks)
        cnt == tuple_count(data)
        none == [page_id |-> INVALID_PAGE_ID, slot_id |-> 0]
    IN IF o.res # "ok" THEN [res |-> o.res, data |-> data, rid |-> none]
       ELSE IF o.offset + tuple_size > PAGE_SIZE
       THEN [res |-> "OutOfBounds", data |-> data, rid |-> none]
       ELSE LET d1 == Splice(data, o.offset, tuple)
                d2 == Splice(d1, TABLE_PAGE_HEADER_SIZE + cnt * TUPLE_INFO_SIZE,
                             TupleInfoBytes(o.offset, tuple_size % 65536, is_deleted))
                d3 == Splice(d2, 8, U16Bytes(cnt + 1))
            IN [res |-> "ok", data |-> d3,
                rid |-> [page_id |-> page_id, slot_id |-> cnt]]

\* mutant: a slot marked deleted is reported as an invalid record id
get_tuple_rejects_deleted(data, page_id, rid) ==
    IF ~validate_record_id(data, page_id, rid)
    THEN [res |-> "InvalidInput", is_deleted |-> 0, data |-> <<>>]
    ELSE LET info == SlotAt(data, rid.slot_id) IN
         IF info.is_deleted # 0
         THEN [res |-> "InvalidInput", is_deleted |-> 0, data |-> <<>>]
         ELSE IF info.offset + info.size_bytes > PAGE_SIZE
         THEN [res |-> "OutOfBounds", is_deleted |-> 0, data |-> <<>>]
         ELSE [res |-> "ok", is_deleted |-> info.is_deleted,
               data |-> Slice(data, info.offset, info.size_bytes)]

\* TablePage::get_tuple; returns [res, is_deleted, data]
get_tuple(data, page_id, rid) ==
    IF ~validate_record_id(data, page_id, rid)
    THEN [res |-> "InvalidInput", is_deleted |-> 0, data |-> <<>>]
    ELSE LET info == SlotAt(data, rid.slot_id) IN
         IF info.offset + info.size_bytes > PAGE_SIZE
         THEN [res |-> "OutOfBounds", is_deleted |-> 0, data |-> <<>>]
         ELSE [res |-> "ok", is_deleted |-> info.is_deleted,
               data |-> Slice(data, info.offset, info.size_bytes)]

\* mutant: the slot's size is cleared along with the flag
update_tuple_metadata_clears_size(data, page_id, rid, is_deleted) ==
    IF ~validate_record_id(data, page_id, rid)
    THEN [res |-> "InvalidInput", data |-> data]
    ELSE [res |-> "ok",
          data |-> Splice(data,
                          TABLE_PAGE_HEADER_SIZE + rid.slot_id * TUPLE_INFO_SIZE + 2,
                          << [n |-> 2, b |-> 0], [n |-> 1, b |-> is_deleted],
                             [n |-> 1, b |-> 0] >>)]

\* TablePage::update_tuple_metadata; returns [res, data]
update_tuple_metadata(data, page_id, rid, is_deleted) ==
    IF ~validate_record_id(data, page_id, rid)
    THEN [res |-> "InvalidInput", data |-> data]
    ELSE [res |-> "ok",
          data |-> Splice(data,
                          TABLE_PAGE_HEADER_SIZE + rid.slot_id * TUPLE_INFO_SIZE + 4,
                          << [n |-> 1, b |-> is_deleted], [n |-> 1, b |-> 0] >>)]

\* -------------------------------------------------------------- TableHeap

NoHeap ==
    [page_cnt |-> 0, first_page_id |-> INVALID_PAGE_ID, last_page_id |-> INVALID_PAGE_ID]

NoRid == [page_id |-> INVALID_PAGE_ID, slot_id |-> 0]

\* a let-binding whose value is computed once: F applied to the value of v
Bind(v, F(_)) == CHOOSE r \in { F(x) : x \in {v} } : TRUE

\* TableHeap::new; returns [s, h]
heap_new(s) ==
    Bind(create_page(s), LAMBDA c :
    IF c.s.panic # "" THEN [s |-> c.s, h |-> NoHeap]
    ELSE LET f == c.frame_id
             first == c.s.frames[f].page_id
             s1 == [c.s EXCEPT !.frames[f].data = init_header(@, INVALID_PAGE_ID)]
         IN [s |-> unpin_page(s1, first, TRUE),
             h |-> [page_cnt |-> 1, first_page_id |-> first, last_page_id |-> first]])

\* mutant: get_tuple releases its read handle only when the page lookup succeeds
heap_get_tuple_leaks_on_error(s, rid) ==
    Bind(fetch_page(s, rid.page_id), LAMBDA c :
    IF c.s.panic # ""
    THEN [s |-> c.s, res |-> "panic", is_deleted |-> 0, data |-> <<>>]
    ELSE LET page == c.s.frames[c.frame_id] IN
         Bind(get_tuple(page.data, page.page_id, rid), LAMBDA g :
         IF g.res # "ok"
         THEN [s |-> c.s, res |-> g.res, is_deleted |-> g.is_deleted, data |-> g.data]
         ELSE
         Bind(unpin_page(c.s, page.page_id, FALSE), LAMBDA s1 :
         [s |-> s1, res |-> IF s1.panic # "" THEN "panic" ELSE g.res,
          is_deleted |-> g.is_deleted, data |-> g.data])))

\* TableHeap::get_tuple; returns [s, res, is_deleted, data]
heap_get_tuple(s, rid) ==
    Bind(fetch_page(s, rid.page_id), LAMBDA c :
    IF c.s.panic # ""
    THEN [s |-> c.s, res |-> "panic", is_deleted |-> 0, data |-> <<>>]
    ELSE LET page == c.s.frames[c.frame_id] IN
         Bind(get_tuple(page.data, page.page_id, rid), LAMBDA g :
         Bind(unpin_page(c.s, page.page_id, FALSE), LAMBDA s1 :
         [s |-> s1, res |-> IF s1.panic # "" THEN "panic" ELSE g.res,
          is_deleted |-> g.is_deleted, data |-> g.data])))

\* the Err(Error::OutOfBounds) arm of TableHeap::insert_tuple: allocate a new
\* page, link it after the last page and insert there; c is the state holding
\* the write handle on the last page, in frame f
heap_insert_new_page(c, f, h, tuple, checks) ==
    Bind(create_page(c.s), LAMBDA n :
    IF n.s.panic # "" THEN [s |-> n.s, h |-> h, res |-> "panic", rid |-> NoRid]
    ELSE
    LET nf == n.frame_id
        page_id == c.s.frames[f].page_id
        new_page_id == n.s.frames[nf].page_id
    IN
    Bind([n.s EXCEPT !.frames[f].data = set_next_page_id(@, new_page_id),
                     !.frames[nf].data = init_header(@, INVALID_PAGE_ID)], LAMBDA s1 :
    Bind(insert_tuple(s1.frames[nf].data, new_page_id, 0, tuple, checks), LAMBDA j :
    IF j.res = "panic"
    THEN [s |-> Panic(s1, "attempt to subtract with overflow"), h |-> h,
          res |-> "panic", rid |-> NoRid]
    ELSE
    \* new_table_page goes out of scope first, then table_page
    Bind(unpin_page(unpin_page([s1 EXCEPT !.frames[nf].data = j.data],
                               new_page_id, TRUE),
                    page_id, TRUE), LAMBDA s3 :
    IF j.res = "ok"
    THEN [s |-> s3,
          h |-> [h EXCEPT !.last_page_id = new_page_id, !.page_cnt = @ + 1],
          res |-> Outcome(s3), rid |-> j.rid]
    ELSE [s |-> s3, h |-> h,
          res |-> IF s3.panic # "" THEN "panic" ELSE j.res,
          rid |-> NoRid]))))

\* TableHeap::insert_tuple; returns [s, h, res, rid]
heap_insert_tuple(s, h, tuple, checks) ==
    Bind(fetch_page_mut(s, h.last_page_id), LAMBDA c :
    IF c.s.panic # "" THEN [s |-> c.s, h |-> h, res |-> "panic", rid |-> NoRid]
    ELSE
    LET f == c.frame_id
        page == c.s.frames[f]
    IN
    Bind(insert_tuple(page.data, page.page_id, 0, tuple, checks), LAMBDA i :
    IF i.res = "panic"
    THEN [s |-> Panic(c.s, "attempt to subtract with overflow"), h |-> h,
          res |-> "panic", rid |-> NoRid]
    ELSE IF i.res = "ok"
    THEN Bind(unpin_page([c.s EXCEPT !.frames[f].data = i.data], page.page_id, TRUE),
              LAMBDA s1 : [s |-> s1, h |-> h, res |-> Outcome(s1), rid |-> i.rid])
    ELSE IF i.res = "OutOfBounds"
    THEN heap_insert_new_page(c, f, h, tuple, checks)
    ELSE Bind(unpin_page(c.s, page.page_id, TRUE),
              LAMBDA s1 : [s |-> s1, h |-> h,
                           res |-> IF s1.panic # "" THEN "panic" ELSE i.res,
                           rid |-> NoRid])))

\* TableHeap::delete_tuple; returns [s, res, is_deleted, data]
heap_delete_tuple(s, rid) ==
    Bind(heap_get_tuple(s, rid), LAMBDA old :
    IF old.res # "ok" THEN old
    ELSE
    Bind(fetch_page_mut(old.s, rid.page_id), LAMBDA c :
    IF c.s.panic # ""
    THEN [s |-> c.s, res |-> "panic", is_deleted |-> 0, data |-> <<>>]
    ELSE
    LET page == c.s.frames[c.frame_id] IN
    Bind(update_tuple_metadata(page.data, page.page_id, rid, 1), LAMBDA u :
    Bind(unpin_page([c.s EXCEPT !.frames[c.frame_id].data = u.data],
                    page.page_id, TRUE), LAMBDA s1 :
    [s |-> s1, res |-> IF s1.panic # "" THEN "panic" ELSE u.res,
     is_deleted |-> old.is_deleted, data |-> old.data]))))

\* ----------------------------------------------------- TableTupleIterator

NoIter ==
    [state |-> "none", current_page_id |-> INVALID_PAGE_ID, current_slot |-> 0,
     res |-> "none", yielded |-> <<>>, expected |-> <<>>, disturbed |-> FALSE]

\* Iterator::next for TableTupleIterator, the whole loop; it holds the
\* iterator's current_page_id and current_slot; returns [s, it, res, rid, data]
\* with res "some", "none", "err" or "panic"
RECURSIVE iter_next(_, _)
iter_next(s, it) ==
    IF it.current_page_id = INVALID_PAGE_ID
    THEN [s |-> s, it |-> it, res |-> "none", rid |-> NoRid, data |-> <<>>]
    ELSE
    Bind(fetch_page(s, it.current_page_id), LAMBDA c :
    IF c.s.panic # ""
    THEN [s |-> c.s, it |-> it, res |-> "panic", rid |-> NoRid, data |-> <<>>]
    ELSE
    LET page == c.s.frames[c.frame_id]
        cnt == tuple_count(page.data)
        next == next_page_id(page.data)
        rid == [page_id |-> it.current_page_id, slot_id |-> it.current_slot]
        next_slot == [it EXCEPT !.current_slot = @ + 1]
        next_page == [it EXCEPT !.current_page_id = next, !.current_slot = 0]
    IN
    Bind(unpin_page(c.s, page.page_id, FALSE), LAMBDA s1 :
    IF s1.panic # ""
    THEN [s |-> s1, it |-> it, res |-> "panic", rid |-> NoRid, data |-> <<>>]
    ELSE IF it.current_slot >= cnt THEN iter_next(s1, next_page)
    ELSE
    \* a second read handle on the page, get_tuple(rid), handle dropped
    Bind(heap_get_tuple(s1, rid), LAMBDA g :
    IF g.res = "panic"
    THEN [s |-> g.s, it |-> next_slot, res |-> "panic", rid |-> NoRid, data |-> <<>>]
    ELSE IF g.res = "ok"
    THEN IF g.is_deleted = 0
         THEN [s |-> g.s, it |-> next_slot, res |-> "some", rid |-> rid,
               data |-> g.data]
         ELSE iter_next(g.s, next_slot)
    ELSE IF g.res = "OutOfBounds" THEN iter_next(g.s, next_page)
    ELSE [s |-> g.s, it |-> next_slot, res |-> "err", rid |-> rid, data |-> <<>>])))

\* ------------------------------------------------------ TablePageIterator

NoPageIter ==
    [state |-> "none", current_page_id |-> INVALID_PAGE_ID,
     held |-> INVALID_PAGE_ID, res |-> "none", visited |-> <<>>]

\* Iterator::next for TablePageIterator; returns [s, res, page_id, next] with
\* res "some" (a TablePageRef holding a read handle on page_id), "none" or
\* "panic"
page_iter_next(s, current_page_id) ==
    IF current_page_id = INVALID_PAGE_ID
    THEN [s |-> s, res |-> "none", page_id |-> INVALID_PAGE_ID,
          next |-> INVALID_PAGE_ID]
    ELSE
    Bind(fetch_page(s, current_page_id), LAMBDA c :
    IF c.s.panic # ""
    THEN [s |-> c.s, res |-> "panic", page_id |-> INVALID_PAGE_ID,
          next |-> current_page_id]
    ELSE [s |-> c.s, res |-> "some", page_id |-> current_page_id,
          next |-> next_page_id(c.s.frames[c.frame_id].data)])

\* ------------------------------------------------------------------ state

VARIABLES
    frames,         \* BufferPoolManager.frames: FrameId -> PageFrame
    page_table,     \* BufferPoolManager.page_table: PageId -> FrameId
    replacer,       \* BufferPoolManager.replacer: the LruReplacer
    free_list,      \* BufferPoolManager.free_list
    disk_manager,   \* BufferPoolManager.disk_manager: the DiskManager
    panic,          \* "" while the program runs, else the panic's cause
    handles,        \* live page handles: FrameId -> [ref, mut] counts
    last,           \* the last operation and what it returned
    released,       \* PageId -> the page's bytes when a write handle on it was last dropped
    overflow_checks, \* whether the build checks integer overflow (debug) or wraps (release)
    table_heap,     \* the TableHeap: page_cnt, first_page_id, last_page_id
    heap_last,      \* the last TableHeap operation and what it returned
    inserted,       \* the [rid, tuple] of every successful TableHeap::insert_tuple
    iter,           \* the TableTupleIterator, if one is alive, and what it yielded
    page_iter,      \* the TablePageIterator, if one is alive, and what it yielded
    lru_log,        \* a direct caller of the LruReplacer: its last call and
                    \* the order in which it last accessed the frames
    lock,           \* the RwLock around the BufferPoolManager: 0, or the thread
                    \* holding its write guard
    threads,        \* the threads sharing the Arc<RwLock<BufferPoolManager>>:
                    \* where each is and the handle it holds
    eviction,       \* a fetch that misses and evicts, statement by statement:
                    \* the statement reached, the frame, the victim and its bytes
    disk_log,       \* a direct caller of the DiskManager: its last call and
                    \* what it has allocated, deallocated and written so far
    table_page,     \* a page frame used directly as a TablePage
    page_last       \* the last TablePage operation and what it returned

vars == << frames, page_table, replacer, free_list, disk_manager, panic,
           handles, last, released, overflow_checks, table_heap, heap_last,
           inserted, iter, page_iter, disk_log, lru_log, table_page, page_last,
           lock, threads, eviction >>

bpm_vars == << frames, page_table, replacer, free_list, disk_manager >>

heap_vars == << overflow_checks, table_heap, heap_last, inserted, iter, page_iter >>
disk_vars == << disk_log >>
lru_vars == << lru_log >>
thread_vars == << lock, threads >>
evict_vars == << eviction >>

page_vars == << table_page, page_last >>

caller_vars == << handles, last, released >>

Self ==
    [frames |-> frames, page_table |-> page_table, replacer |-> replacer,
     free_list |-> free_list, disk_manager |-> disk_manager, panic |-> panic]

Install(s) ==
    /\ frames' = s.frames
    /\ page_table' = s.page_table
    /\ replacer' = s.replacer
    /\ free_list' = s.free_list
    /\ disk_manager' = s.disk_manager
    /\ panic' = s.panic

\* a frame can be had: the free list is non-empty or the replacer has a victim
FrameAvailable == free_list # <<>> \/ EvictableNodes(replacer) # {}

\* the page get_free_frame evicts when called now (INVALID_PAGE_ID: none)
Victim ==
    IF free_list = <<>> /\ EvictableNodes(replacer) # {}
    THEN frames[LruVictim(replacer)].page_id
    ELSE INVALID_PAGE_ID

HandleCount ==
    LET RECURSIVE Sum(_)
        Sum(S) == IF S = {} THEN 0
                  ELSE LET f == CHOOSE x \in S : TRUE
                       IN handles[f].ref + handles[f].mut + Sum(S \ {f})
    IN Sum(FrameIds)

\* page ids a caller may ask for: allocated or not, and INVALID_PAGE_ID
PageIdInputs == (0 .. MaxPages) \cup {INVALID_PAGE_ID}

\* bytes a caller writes through a write handle
WriteOffsets == {0}
WriteBytes == {1, 7}

InitBpm ==
    /\ frames = NewBpm.frames
    /\ page_table = NewBpm.page_table
    /\ replacer = NewBpm.replacer
    /\ free_list = NewBpm.free_list
    /\ disk_manager = NewBpm.disk_manager
    /\ panic = ""
    /\ handles = [f \in FrameIds |-> [ref |-> 0, mut |-> 0]]
    /\ last = [op |-> "new", page_id |-> INVALID_PAGE_ID, frame_id |-> 0,
               res |-> "ok", hit |-> FALSE, victim |-> INVALID_PAGE_ID]
    /\ released = << >>
    /\ table_heap = NoHeap
    /\ heap_last = [op |-> "none", res |-> "ok", rid |-> NoRid, tuple |-> <<>>,
                    is_deleted |-> 0, data |-> <<>>]
    /\ inserted = << >>
    /\ iter = NoIter
    /\ page_iter = NoPageIter
    /\ disk_log = NoDiskLog
    /\ lru_log = NoLruLog
    /\ lock = 0
    /\ threads = [t \in Threads |-> NoThread]
    /\ eviction = NoEviction
    /\ table_page = [NewFrame EXCEPT !.page_id = 1]
    /\ page_last = [op |-> "none", res |-> "ok", rid |-> NoRid,
                    tuple |-> <<>>, is_deleted |-> 0, data |-> <<>>]

Init == InitBpm /\ overflow_checks = TRUE

\* ---------------------------------------------------------------- actions

\* create_page_handle(bpm)
CreatePageHandle ==
    /\ panic = ""
    /\ disk_manager.last_allocated_pid < MaxPages
    /\ LET c == create_page(Self) IN
       /\ c.s.replacer.current_timestamp <= MaxTimestamp
       /\ Install(c.s)
       /\ c.s.panic = "" => HandleCount < MaxHandles
       /\ handles' = IF c.s.panic = ""
                     THEN [handles EXCEPT ![c.frame_id].mut = @ + 1]
                     ELSE handles
       /\ last' = [op |-> "create_page_handle", page_id |-> c.page_id,
                   frame_id |-> c.frame_id, res |-> Outcome(c.s), hit |-> FALSE,
                   victim |-> Victim]
    /\ UNCHANGED released
    /\ UNCHANGED << heap_vars, page_vars, disk_vars, lru_vars, thread_vars,
                    evict_vars >>

\* fetch_page_handle(bpm, page_id)
FetchPageHandle(page_id) ==
    /\ panic = ""
    /\ LET c == fetch_page(Self, page_id) IN
       /\ c.s.replacer.current_timestamp <= MaxTimestamp
       /\ Install(c.s)
       /\ c.s.panic = "" => HandleCount < MaxHandles
       /\ handles' = IF c.s.panic = ""
                     THEN [handles EXCEPT ![c.frame_id].ref = @ + 1]
                     ELSE handles
       /\ last' = [op |-> "fetch_page_handle", page_id |-> page_id,
                   frame_id |-> c.frame_id, res |-> Outcome(c.s), hit |-> c.hit,
                   victim |-> IF c.hit THEN INVALID_PAGE_ID ELSE Victim]
    /\ UNCHANGED released
    /\ UNCHANGED << heap_vars, page_vars, disk_vars, lru_vars, thread_vars,
                    evict_vars >>

\* fetch_page_mut_handle(bpm, page_id)
FetchPageMutHandle(page_id) ==
    /\ panic = ""
    /\ LET c == fetch_page_mut(Self, page_id) IN
       /\ c.s.replacer.current_timestamp <= MaxTimestamp
       /\ Install(c.s)
       /\ c.s.panic = "" => HandleCount < MaxHandles
       /\ handles' = IF c.s.panic = ""
                     THEN [handles EXCEPT ![c.frame_id].mut = @ + 1]
                     ELSE handles
       /\ last' = [op |-> "fetch_page_mut_handle", page_id |-> page_id,
                   frame_id |-> c.frame_id, res |-> Outcome(c.s), hit |-> c.hit,
                   victim |-> IF c.hit THEN INVALID_PAGE_ID ELSE Victim]
    /\ UNCHANGED released
    /\ UNCHANGED << heap_vars, page_vars, disk_vars, lru_vars, thread_vars,
                    evict_vars >>

\* Drop for PageFrameRefHandle: unpin_page(page_frame.page_id(), false)
DropRefHandle(f) ==
    /\ panic = ""
    /\ handles[f].ref > 0
    /\ LET s == unpin_page(Self, frames[f].page_id, FALSE) IN
       /\ Install(s)
       /\ last' = [op |-> "drop_ref", page_id |-> frames[f].page_id,
                   frame_id |-> f, res |-> Outcome(s), hit |-> FALSE,
                   victim |-> INVALID_PAGE_ID]
    /\ handles' = [handles EXCEPT ![f].ref = @ - 1]
    /\ UNCHANGED released
    /\ UNCHANGED << heap_vars, page_vars, disk_vars, lru_vars, thread_vars,
                    evict_vars >>

\* Drop for PageFrameMutHandle: unpin_page(page_frame.page_id(), true)
DropMutHandle(f) ==
    /\ panic = ""
    /\ handles[f].mut > 0
    /\ LET s == unpin_page(Self, frames[f].page_id, TRUE) IN
       /\ Install(s)
       /\ last' = [op |-> "drop_mut", page_id |-> frames[f].page_id,
                   frame_id |-> f, res |-> Outcome(s), hit |-> FALSE,
                   victim |-> INVALID_PAGE_ID]
    /\ handles' = [handles EXCEPT ![f].mut = @ - 1]
    /\ released' = TablePut(released, frames[f].page_id, frames[f].data)
    /\ UNCHANGED << heap_vars, page_vars, disk_vars, lru_vars, thread_vars,
                    evict_vars >>

\* a caller writes bytes through a write handle (page_frame_mut().write / data_mut())
WriteFrame(f, offset, b) ==
    /\ panic = ""
    /\ handles[f].mut > 0
    /\ frames' = [frames EXCEPT ![f] = frame_write(@, offset, Fill(1, b))]
    /\ last' = [op |-> "write", page_id |-> frames[f].page_id,
                frame_id |-> f, res |-> "ok", hit |-> FALSE,
                victim |-> INVALID_PAGE_ID]
    /\ UNCHANGED << page_table, replacer, free_list, disk_manager, panic,
                    handles, released >>
    /\ UNCHANGED << heap_vars, page_vars, disk_vars, lru_vars, thread_vars,
                    evict_vars >>

\* BufferPoolManager::delete_page(page_id)
DeletePage(page_id) ==
    /\ panic = ""
    /\ LET s == delete_page(Self, page_id) IN
       /\ Install(s)
       /\ last' = [op |-> "delete_page", page_id |-> page_id,
                   frame_id |-> IF page_id \in DOMAIN page_table
                                THEN page_table[page_id] ELSE 0,
                   res |-> Outcome(s), hit |-> page_id \in DOMAIN page_table,
                   victim |-> INVALID_PAGE_ID]
       /\ released' = IF s.panic = "" /\ page_id \in DOMAIN page_table
                      THEN TableDel(released, page_id)
                      ELSE released
    /\ UNCHANGED handles
    /\ UNCHANGED << heap_vars, page_vars, disk_vars, lru_vars, thread_vars,
                    evict_vars >>

\* BufferPoolManager::unpin_page(page_id, is_dirty), called by code of the crate
\* that holds no handle
UnpinPage(page_id, is_dirty) ==
    /\ panic = ""
    /\ LET s == unpin_page(Self, page_id, is_dirty) IN
       /\ Install(s)
       /\ last' = [op |-> "unpin_page", page_id |-> page_id,
                   frame_id |-> IF page_id \in DOMAIN page_table
                                THEN page_table[page_id] ELSE 0,
                   res |-> Outcome(s), hit |-> page_id \in DOMAIN page_table,
                   victim |-> INVALID_PAGE_ID]
    /\ UNCHANGED << handles, released >>
    /\ UNCHANGED << heap_vars, page_vars, disk_vars, lru_vars, thread_vars,
                    evict_vars >>

Next ==
    \/ CreatePageHandle
    \/ \E p \in PageIdInputs : FetchPageHandle(p)
    \/ \E p \in PageIdInputs : FetchPageMutHandle(p)
    \/ \E f \in FrameIds : DropRefHandle(f)
    \/ \E f \in FrameIds : DropMutHandle(f)
    \/ \E f \in FrameIds, o \in WriteOffsets, b \in WriteBytes : WriteFrame(f, o, b)
    \/ \E p \in PageIdInputs : DeletePage(p)

Spec == Init /\ [][Next]_vars

NextUnpin ==
    \/ CreatePageHandle
    \/ \E p \in PageIdInputs : FetchPageHandle(p)
    \/ \E p \in PageIdInputs : FetchPageMutHandle(p)
    \/ \E f \in FrameIds : DropRefHandle(f)
    \/ \E f \in FrameIds : DropMutHandle(f)
    \/ \E p \in PageIdInputs : DeletePage(p)
    \/ \E p \in PageIdInputs, d \in BOOLEAN : UnpinPage(p, d)

\* the buffer pool with unpin_page called directly as well as by the handles
SpecUnpin == Init /\ [][NextUnpin]_vars

\* ------------------------------------------------------- table heap actions

\* tuples a caller inserts: a few bytes, the nearly page-filling tuple of
\* test_table_heap_new_page_allocation, the largest tuple an empty page takes,
\* and one byte more than that
SmallTuple == << [n |-> 1, b |-> 10], [n |-> 1, b |-> 20], [n |-> 1, b |-> 30] >>
HugeTuple == Fill(PAGE_SIZE - TABLE_PAGE_HEADER_SIZE - TUPLE_INFO_SIZE - 5, 1)
FullTuple == Fill(PAGE_SIZE - TABLE_PAGE_HEADER_SIZE - TUPLE_INFO_SIZE, 2)
OverTuple == Fill(PAGE_SIZE - TABLE_PAGE_HEADER_SIZE - TUPLE_INFO_SIZE + 1, 3)

TupleInputs == {SmallTuple, HugeTuple, FullTuple, OverTuple}

RidInputs == [page_id : 1 .. HeapMaxPages, slot_id : 0 .. MaxSlot]

InitHeap == InitBpm /\ overflow_checks \in BOOLEAN

\* while an iterator is alive the run may go on for longer
HeapBounded(s) ==
    /\ s.disk_manager.last_allocated_pid <= HeapMaxPages
    /\ s.replacer.current_timestamp
         <= IF iter.state = "none" /\ page_iter.state = "none"
            THEN HeapMaxTimestamp ELSE IterMaxTimestamp

\* TableHeap::new(bpm)
HeapNew ==
    /\ panic = ""
    /\ table_heap = NoHeap
    /\ \E r \in {heap_new(Self)} :
       /\ HeapBounded(r.s)
       /\ Install(r.s)
       /\ table_heap' = r.h
       /\ heap_last' = [op |-> "new", res |-> Outcome(r.s), rid |-> NoRid,
                        tuple |-> <<>>, is_deleted |-> 0, data |-> <<>>]
    /\ UNCHANGED << caller_vars, disk_vars, lru_vars, thread_vars, overflow_checks, inserted, iter, page_iter,
                    page_vars,
                    evict_vars >>

\* TableHeap::insert_tuple(tuple)
HeapInsertTuple(tuple) ==
    /\ panic = ""
    /\ table_heap # NoHeap
    /\ \E r \in {heap_insert_tuple(Self, table_heap, tuple, overflow_checks)} :
       /\ HeapBounded(r.s)
       /\ Install(r.s)
       /\ table_heap' = r.h
       /\ heap_last' = [op |-> "insert_tuple", res |-> r.res, rid |-> r.rid,
                        tuple |-> tuple, is_deleted |-> 0, data |-> <<>>]
       /\ inserted' = IF r.res = "ok"
                      THEN Append(inserted, [rid |-> r.rid, tuple |-> tuple])
                      ELSE inserted
    \* insert_tuple takes &mut self: no iterator borrows the heap any more
    /\ iter' = NoIter
    /\ page_iter.held = INVALID_PAGE_ID
    /\ page_iter' = NoPageIter
    /\ UNCHANGED << caller_vars, disk_vars, lru_vars, thread_vars, overflow_checks, page_vars,
                    evict_vars >>

\* TableHeap::get_tuple(rid)
HeapGetTuple(rid) ==
    /\ panic = ""
    /\ table_heap # NoHeap
    /\ \E r \in {heap_get_tuple(Self, rid)} :
       /\ HeapBounded(r.s)
       /\ Install(r.s)
       /\ heap_last' = [op |-> "get_tuple", res |-> r.res, rid |-> rid,
                        tuple |-> <<>>, is_deleted |-> r.is_deleted, data |-> r.data]
    /\ UNCHANGED << caller_vars, disk_vars, lru_vars, thread_vars, overflow_checks, table_heap, inserted, iter,
                    page_iter, page_vars,
                    evict_vars >>

\* TableHeap::delete_tuple(rid)
HeapDeleteTuple(rid) ==
    /\ panic = ""
    /\ table_heap # NoHeap
    /\ \E r \in {heap_delete_tuple(Self, rid)} :
       /\ HeapBounded(r.s)
       /\ Install(r.s)
       /\ heap_last' = [op |-> "delete_tuple", res |-> r.res, rid |-> rid,
                        tuple |-> <<>>, is_deleted |-> r.is_deleted, data |-> r.data]
    /\ iter' = IF iter.state = "active" THEN [iter EXCEPT !.disturbed = TRUE]
               ELSE iter
    /\ UNCHANGED << caller_vars, disk_vars, lru_vars, thread_vars, overflow_checks, table_heap, inserted, page_iter,
                    page_vars,
                    evict_vars >>

NextHeap ==
    \/ HeapNew
    \/ \E t \in TupleInputs : HeapInsertTuple(t)
    \/ \E rid \in RidInputs : HeapGetTuple(rid)
    \/ \E rid \in RidInputs : HeapDeleteTuple(rid)

SpecHeap == InitHeap /\ [][NextHeap]_vars

\* --------------------------------------------------- tuple iterator actions

\* the bytes of page p as the buffer pool has them: the frame's if resident,
\* else the disk's
PageBytes(s, p) ==
    IF p \in DOMAIN s.page_table THEN s.frames[s.page_table[p]].data
    ELSE s.disk_manager.file[p + 1]

\* the inserted tuples whose slot is not marked deleted, in insertion order
LiveInserted ==
    SelectSeq(inserted,
              LAMBDA e : SlotAt(PageBytes(Self, e.rid.page_id), e.rid.slot_id).is_deleted = 0)

\* TableTupleIterator::new(bpm, table_heap)
IterNew ==
    /\ panic = ""
    /\ table_heap # NoHeap
    /\ iter.state = "none"
    /\ page_iter.state = "none"
    /\ iter' = [NoIter EXCEPT !.state = "active",
                              !.current_page_id = table_heap.first_page_id,
                              !.expected = LiveInserted]
    /\ UNCHANGED << bpm_vars, panic, caller_vars, disk_vars, lru_vars, thread_vars, overflow_checks, table_heap,
                    heap_last, inserted, page_iter, page_vars,
                    evict_vars >>

\* TableTupleIterator::next()
IterNext ==
    /\ panic = ""
    /\ iter.state = "active"
    /\ \E r \in {iter_next(Self, [current_page_id |-> iter.current_page_id,
                                   current_slot |-> iter.current_slot])} :
       /\ HeapBounded(r.s)
       /\ Install(r.s)
       /\ iter' = [iter EXCEPT
                      !.state = IF r.res = "some" THEN "active" ELSE "done",
                      !.current_page_id = r.it.current_page_id,
                      !.current_slot = r.it.current_slot,
                      !.res = r.res,
                      !.yielded = IF r.res = "some"
                                  THEN Append(@, [rid |-> r.rid, tuple |-> r.data])
                                  ELSE @]
    /\ UNCHANGED << caller_vars, disk_vars, lru_vars, thread_vars, overflow_checks, table_heap, heap_last, inserted,
                    page_iter, page_vars,
                    evict_vars >>

\* TableHeap::page_iter()
PageIterNew ==
    /\ panic = ""
    /\ table_heap # NoHeap
    /\ iter.state = "none"
    /\ page_iter.state = "none"
    /\ page_iter' = [NoPageIter EXCEPT !.state = "active",
                                       !.current_page_id = table_heap.first_page_id]
    /\ UNCHANGED << bpm_vars, panic, caller_vars, disk_vars, lru_vars, thread_vars, overflow_checks, table_heap,
                    heap_last, inserted, iter, page_vars,
                    evict_vars >>

\* TablePageIterator::next(), called once the page view it returned before
\* has been dropped
PageIterNext ==
    /\ panic = ""
    /\ page_iter.state = "active"
    /\ page_iter.held = INVALID_PAGE_ID
    /\ \E r \in {page_iter_next(Self, page_iter.current_page_id)} :
       /\ HeapBounded(r.s)
       /\ Install(r.s)
       /\ page_iter' = [page_iter EXCEPT
                           !.state = IF r.res = "some" THEN "active" ELSE "done",
                           !.current_page_id = r.next,
                           !.held = r.page_id,
                           !.res = r.res,
                           !.visited = IF r.res = "some" THEN Append(@, r.page_id)
                                       ELSE @]
    /\ UNCHANGED << caller_vars, disk_vars, lru_vars, thread_vars, overflow_checks, table_heap, heap_last, inserted,
                    iter, page_vars,
                    evict_vars >>

\* the TablePageRef the page iterator returned goes out of scope
PageIterDrop ==
    /\ panic = ""
    /\ page_iter.held # INVALID_PAGE_ID
    /\ \E s1 \in {unpin_page(Self, page_iter.held, FALSE)} :
       /\ Install(s1)
       /\ page_iter' = [page_iter EXCEPT !.held = INVALID_PAGE_ID]
    /\ UNCHANGED << caller_vars, disk_vars, lru_vars, thread_vars, overflow_checks, table_heap, heap_last, inserted,
                    iter, page_vars,
                    evict_vars >>

IterTupleInputs == {SmallTuple, HugeTuple, OverTuple}

\* the heap is filled first and iterated afterwards, as in test_table_iterator
NoIterator == iter.state = "none" /\ page_iter.state = "none"

NextIter ==
    \/ HeapNew
    \/ \E t \in IterTupleInputs : NoIterator /\ HeapInsertTuple(t)
    \/ \E rid \in RidInputs : NoIterator /\ HeapDeleteTuple(rid)
    \/ IterNew
    \/ IterNext
    \/ PageIterNew
    \/ PageIterNext
    \/ PageIterDrop

SpecIter == InitHeap /\ [][NextIter]_vars

\* ------------------------------------------------------ disk manager actions

DiskPageIds == 0 .. DiskMaxPages

\* page contents a caller writes: a page starting with the byte 0x01 (the low
\* byte of a table page's next_page_id = 1), a page of sevens, and one byte
\* more than a page
FirstByteOnePage == << [n |-> 1, b |-> 1], [n |-> PAGE_SIZE_BYTES - 1, b |-> 0] >>
SevensPage == Fill(PAGE_SIZE_BYTES, 7)
TooLongData == Fill(PAGE_SIZE_BYTES + 1, 2)

DiskDataInputs == {FirstByteOnePage, SevensPage, TooLongData}

\* DiskManager::allocate_page()
DiskAllocate ==
    /\ disk_manager.last_allocated_pid < DiskMaxPages
    /\ \E a \in {allocate_page(disk_manager)} :
       /\ disk_manager' = a.d
       /\ disk_log' = [disk_log EXCEPT
                         !.op = "allocate_page", !.res = "ok",
                         !.page_id = a.page_id, !.data = <<>>,
                         !.allocated = Append(@, a.page_id),
                         !.written = StorePut(@, a.page_id, EMPTY_BUFFER)]
    /\ UNCHANGED << frames, page_table, replacer, free_list, panic, caller_vars,
                    heap_vars, page_vars, lru_vars, thread_vars,
                    evict_vars >>

\* DiskManager::deallocate_page(page_id)
DiskDeallocate(p) ==
    /\ disk_manager' = deallocate_page(disk_manager, p)
    /\ disk_log' = [disk_log EXCEPT
                      !.op = "deallocate_page", !.res = "ok",
                      !.page_id = p, !.data = <<>>,
                      !.deallocated = @ \cup {p}]
    /\ UNCHANGED << frames, page_table, replacer, free_list, panic, caller_vars,
                    heap_vars, page_vars, lru_vars, thread_vars,
                    evict_vars >>

\* DiskManager::read(page_id)
DiskRead(p) ==
    /\ \E r \in {disk_read(disk_manager, p)} :
          disk_log' = [disk_log EXCEPT
                         !.op = "read", !.res = r.res, !.page_id = p,
                         !.data = r.data]
    /\ UNCHANGED << bpm_vars, panic, caller_vars,
                    heap_vars, page_vars, lru_vars, thread_vars,
                    evict_vars >>

\* DiskManager::write(page_id, data)
DiskWrite(p, data) ==
    /\ disk_manager' = disk_write(disk_manager, p, data)
    /\ disk_log' = [disk_log EXCEPT
                      !.op = "write", !.res = disk_write_result(data),
                      !.page_id = p, !.data = data,
                      !.written = IF disk_write_result(data) = "ok"
                                  THEN StorePut(@, p, data) ELSE @]
    /\ UNCHANGED << frames, page_table, replacer, free_list, panic, caller_vars,
                    heap_vars, page_vars, lru_vars, thread_vars,
                    evict_vars >>

NextDisk ==
    \/ DiskAllocate
    \/ \E p \in DiskPageIds : DiskDeallocate(p)
    \/ \E p \in DiskPageIds : DiskRead(p)
    \/ \E p \in DiskPageIds, data \in DiskDataInputs : DiskWrite(p, data)

\* DiskManager::new(filename), then calls on the disk manager alone
SpecDisk == Init /\ [][NextDisk]_vars

\* DiskManager::allocate_page() with PageIdBits-wide page ids
DiskAllocateW ==
    /\ panic = ""
    /\ Len(disk_log.allocated) < AllocMaxReturned
    /\ \E a \in {allocate_page_w(disk_manager, PageIdBits, overflow_checks)} :
       /\ disk_manager' = a.d
       /\ panic' = IF a.res = "panic" THEN "attempt to add with overflow" ELSE ""
       /\ disk_log' = [disk_log EXCEPT
                         !.op = "allocate_page", !.res = a.res,
                         !.page_id = a.page_id, !.data = <<>>,
                         !.allocated = IF a.res = "ok" THEN Append(@, a.page_id)
                                       ELSE @]
    /\ UNCHANGED << frames, page_table, replacer, free_list, caller_vars,
                    heap_vars, page_vars, lru_vars, thread_vars,
                    evict_vars >>

\* the build profile is fixed before the run
InitAlloc == InitBpm /\ overflow_checks \in BOOLEAN

NextAlloc ==
    \/ DiskAllocateW
    \/ panic = "" /\ DiskDeallocate(1)

\* DiskManager::new(filename), then allocations up to and past the last id
SpecAlloc == InitAlloc /\ [][NextAlloc]_vars

\* ---------------------------------------------------------- replacer actions

LruFrameIds == 0 .. LruMaxFrame

\* the sequence without frame f
Without(order, f) == SelectSeq(order, LAMBDA g : g # f)

\* LruReplacer::record_access(frame_id)
LruRecordAccess(f) ==
    /\ panic = ""
    /\ replacer.current_timestamp < LruMaxTimestamp
    /\ replacer' = record_access(replacer, f)
    /\ lru_log' = [op |-> "record_access", frame_id |-> f, some |-> FALSE,
                   order |-> Append(Without(lru_log.order, f), f)]
    /\ UNCHANGED << frames, page_table, free_list, disk_manager, panic,
                    caller_vars, heap_vars, page_vars, disk_vars, thread_vars,
                    evict_vars >>

\* LruReplacer::pin(frame_id)
LruPin(f) ==
    /\ panic = ""
    /\ replacer' = pin(replacer, f)
    /\ lru_log' = [lru_log EXCEPT !.op = "pin", !.frame_id = f, !.some = FALSE]
    /\ UNCHANGED << frames, page_table, free_list, disk_manager, panic,
                    caller_vars, heap_vars, page_vars, disk_vars, thread_vars,
                    evict_vars >>

\* LruReplacer::unpin(frame_id)
LruUnpin(f) ==
    /\ panic = ""
    /\ replacer' = unpin(replacer, f)
    /\ lru_log' = [lru_log EXCEPT !.op = "unpin", !.frame_id = f, !.some = FALSE]
    /\ UNCHANGED << frames, page_table, free_list, disk_manager, panic,
                    caller_vars, heap_vars, page_vars, disk_vars, thread_vars,
                    evict_vars >>

\* LruReplacer::remove(frame_id); panics on a pinned frame
LruRemove(f) ==
    /\ panic = ""
    /\ \E r \in {remove(replacer, f)} :
       /\ replacer' = r.r
       /\ panic' = r.panic
    /\ lru_log' = [op |-> "remove", frame_id |-> f, some |-> FALSE,
                   order |-> Without(lru_log.order, f)]
    /\ UNCHANGED << frames, page_table, free_list, disk_manager,
                    caller_vars, heap_vars, page_vars, disk_vars, thread_vars,
                    evict_vars >>

\* LruReplacer::evict()
LruEvict ==
    /\ panic = ""
    /\ \E e \in {evict(replacer)} :
       /\ replacer' = e.r
       /\ lru_log' = [op |-> "evict", frame_id |-> e.frame_id, some |-> e.some,
                      order |-> IF e.some THEN Without(lru_log.order, e.frame_id)
                                ELSE lru_log.order]
    /\ UNCHANGED << frames, page_table, free_list, disk_manager, panic,
                    caller_vars, heap_vars, page_vars, disk_vars, thread_vars,
                    evict_vars >>

NextLru ==
    \/ \E f \in LruFrameIds : LruRecordAccess(f)
    \/ \E f \in LruFrameIds : LruPin(f)
    \/ \E f \in LruFrameIds : LruUnpin(f)
    \/ \E f \in LruFrameIds : LruRemove(f)
    \/ LruEvict

\* LruReplacer::new(), then calls on the replacer alone
SpecLru == Init /\ [][NextLru]_vars

\* ---------------------------------------------------- miss path, by statement

EvictIdle == eviction.pc = "idle"

\* fetch_page_handle / fetch_page_mut_handle of a page that is not resident,
\* with the free list empty: up to replacer.evict() and the assertion
EvictBegin(kind, page_id) ==
    /\ panic = ""
    /\ EvictIdle
    /\ page_id \notin DOMAIN page_table
    /\ free_list = <<>>
    /\ HandleCount < MaxHandles
    /\ \E v \in {evict_victim(Self)} :
       /\ Install(v.s)
       /\ eviction' = IF v.s.panic # "" THEN NoEviction
                      ELSE [pc |-> "evicted", kind |-> kind, page_id |-> page_id,
                            frame_id |-> v.frame_id,
                            victim |-> frames[v.frame_id].page_id,
                            bytes |-> frames[v.frame_id].data,
                            dirty |-> frames[v.frame_id].is_dirty]
    /\ UNCHANGED << caller_vars, heap_vars, page_vars, disk_vars, lru_vars,
                    thread_vars >>

\* the statement after eviction.pc
EvictStatement ==
    /\ panic = ""
    /\ eviction.pc \in {"evicted", "written", "removed", "reset"}
    /\ LET f == eviction.frame_id IN
       \E s \in {IF eviction.pc = "evicted" THEN write_back(Self, f)
                  ELSE IF eviction.pc = "written" THEN remove_stale(Self, f)
                  ELSE IF eviction.pc = "removed" THEN reset_frame(Self, f)
                  ELSE install_page(Self, f, eviction.page_id)} :
          Install(s)
    /\ eviction' = [eviction EXCEPT !.pc = IF @ = "evicted" THEN "written"
                                          ELSE IF @ = "written" THEN "removed"
                                          ELSE IF @ = "removed" THEN "reset"
                                          ELSE "installed"]
    /\ UNCHANGED << caller_vars, heap_vars, page_vars, disk_vars, lru_vars,
                    thread_vars >>

\* the read of the page into the frame, and the handle returned
EvictRead ==
    /\ panic = ""
    /\ eviction.pc = "installed"
    /\ LET f == eviction.frame_id IN
       \E s \in {read_page(Self, f, eviction.page_id)} :
          /\ Install(s)
          /\ handles' = IF s.panic # "" THEN handles
                        ELSE IF eviction.kind = "ref"
                        THEN [handles EXCEPT ![f].ref = @ + 1]
                        ELSE [handles EXCEPT ![f].mut = @ + 1]
          /\ last' = [op |-> IF eviction.kind = "ref" THEN "fetch_page_handle"
                             ELSE "fetch_page_mut_handle",
                      page_id |-> eviction.page_id, frame_id |-> f,
                      res |-> Outcome(s), hit |-> FALSE, victim |-> eviction.victim]
    /\ eviction' = NoEviction
    /\ UNCHANGED << released, heap_vars, page_vars, disk_vars, lru_vars, thread_vars >>

NextEvict ==
    \/ EvictIdle /\ CreatePageHandle
    \/ EvictIdle /\ \E p \in PageIdInputs : FetchPageHandle(p)
    \/ EvictIdle /\ \E p \in PageIdInputs : FetchPageMutHandle(p)
    \/ EvictIdle /\ \E f \in FrameIds : DropRefHandle(f)
    \/ EvictIdle /\ \E f \in FrameIds : DropMutHandle(f)
    \/ EvictIdle /\ \E f \in FrameIds, o \in WriteOffsets, b \in WriteBytes :
                       WriteFrame(f, o, b)
    \/ EvictIdle /\ \E p \in PageIdInputs : DeletePage(p)
    \/ \E p \in PageIdInputs : EvictBegin("ref", p)
    \/ \E p \in PageIdInputs : EvictBegin("mut", p)
    \/ EvictStatement
    \/ EvictRead

\* the buffer pool of Spec, with the evicting fetch also taken one statement
\* at a time
SpecEvict == Init /\ [][NextEvict]_vars

\* ------------------------------------------------------------ thread actions

ThreadPageIds == 0 .. MaxPages

\* bpm.write().unwrap(), the first statement of create_page_handle,
\* fetch_page_handle and fetch_page_mut_handle: blocks while the guard is held
ThreadLock(t, kind, page_id) ==
    /\ panic = ""
    /\ lock = 0
    /\ threads[t].pc = "idle"
    /\ kind = "create_page_handle" =>
         page_id = INVALID_PAGE_ID /\ disk_manager.last_allocated_pid < MaxPages
    /\ kind # "create_page_handle" => page_id \in ThreadPageIds
    /\ lock' = t
    /\ threads' = [threads EXCEPT ![t] = [NoThread EXCEPT !.pc = "locked",
                                                          !.kind = kind,
                                                          !.page_id = page_id]]
    /\ UNCHANGED << bpm_vars, panic, caller_vars, heap_vars, page_vars, disk_vars,
                    lru_vars,
                    evict_vars >>

\* the rest of the handle constructor: the BufferPoolManager call, the handle
\* built from the frame, and the guard dropped at the return
ThreadCall(t) ==
    /\ panic = ""
    /\ threads[t].pc = "locked"
    /\ \E c \in {IF threads[t].kind = "create_page_handle" THEN create_page(Self)
                 ELSE IF threads[t].kind = "fetch_page_handle"
                 THEN fetch_page(Self, threads[t].page_id)
                 ELSE fetch_page_mut(Self, threads[t].page_id)} :
       /\ c.s.replacer.current_timestamp <= MaxTimestamp
       /\ Install(c.s)
       \* a panic unwinds the thread and poisons the lock
       /\ threads' = IF c.s.panic # "" THEN [threads EXCEPT ![t] = NoThread]
                     ELSE [threads EXCEPT ![t] =
                             [NoThread EXCEPT
                                !.pc = "holding",
                                !.kind = IF threads[t].kind = "fetch_page_handle"
                                         THEN "ref" ELSE "mut",
                                !.page_id = c.s.frames[c.frame_id].page_id,
                                !.frame_id = c.frame_id]]
    /\ lock' = 0
    /\ UNCHANGED << caller_vars, heap_vars, page_vars, disk_vars, lru_vars,
                    evict_vars >>

\* a thread writes a byte through its write handle (page_frame_mut().write)
ThreadWrite(t, b) ==
    /\ panic = ""
    /\ threads[t].pc = "holding" /\ threads[t].kind = "mut"
    /\ frames' = [frames EXCEPT ![threads[t].frame_id] = frame_write(@, 0, Fill(1, b))]
    /\ frames' # frames
    /\ UNCHANGED << page_table, replacer, free_list, disk_manager, panic,
                    caller_vars, heap_vars, page_vars, disk_vars, lru_vars,
                    thread_vars,
                    evict_vars >>

\* Drop for PageFrameRefHandle / PageFrameMutHandle calls unpin_page through the
\* raw pointer, taking no lock. First part of unpin_page: the page-table lookup,
\* set_dirty, and the read of pin_cnt in decrement_pin_count
ThreadUnpinBegin(t) ==
    /\ panic = ""
    /\ threads[t].pc = "holding"
    /\ LET page_id == frames[threads[t].frame_id].page_id
           found == page_id \in DOMAIN page_table
           f == IF found THEN page_table[page_id] ELSE threads[t].frame_id
       IN /\ frames' = IF found /\ threads[t].kind = "mut"
                        THEN [frames EXCEPT ![f].is_dirty = TRUE]
                        ELSE frames
          /\ threads' = [threads EXCEPT ![t] = [@ EXCEPT !.pc = "unpinning",
                                                         !.page_id = page_id,
                                                         !.frame_id = f,
                                                         !.found = found,
                                                         !.pin_cnt = frames[f].pin_cnt]]
    /\ UNCHANGED << page_table, replacer, free_list, disk_manager, panic, lock,
                    caller_vars, heap_vars, page_vars, disk_vars, lru_vars,
                    evict_vars >>

\* second part of unpin_page: the assertion and the store of pin_cnt - 1, then
\* replacer.unpin when the count stored is 0
ThreadUnpinEnd(t) ==
    /\ panic = ""
    /\ threads[t].pc = "unpinning"
    /\ LET f == threads[t].frame_id IN
       IF ~threads[t].found
       THEN UNCHANGED << frames, replacer, panic >>
       ELSE IF threads[t].pin_cnt = 0
       THEN panic' = "pin count underflow" /\ UNCHANGED << frames, replacer >>
       ELSE /\ frames' = [frames EXCEPT ![f].pin_cnt = threads[t].pin_cnt - 1]
            /\ replacer' = IF threads[t].pin_cnt = 1 THEN unpin(replacer, f)
                           ELSE replacer
            /\ panic' = panic
    /\ threads' = [threads EXCEPT ![t] = NoThread]
    /\ UNCHANGED << page_table, free_list, disk_manager, lock,
                    caller_vars, heap_vars, page_vars, disk_vars, lru_vars,
                    evict_vars >>

NextLock ==
    \/ \E t \in Threads : ThreadLock(t, "create_page_handle", INVALID_PAGE_ID)
    \/ \E t \in Threads, p \in ThreadPageIds : ThreadLock(t, "fetch_page_handle", p)
    \/ \E t \in Threads, p \in ThreadPageIds : ThreadLock(t, "fetch_page_mut_handle", p)
    \/ \E t \in Threads : ThreadCall(t)
    \/ \E t \in Threads, b \in WriteBytes : ThreadWrite(t, b)
    \/ \E t \in Threads : ThreadUnpinBegin(t)
    \/ \E t \in Threads : ThreadUnpinEnd(t)

\* BufferPoolManager::new(PoolSize, ..) shared by MaxThreads threads, each
\* holding at most one page handle
SpecLock == Init /\ [][NextLock]_vars

\* ------------------------------------------------------- table page actions

\* a tuple of half a page, and one longer than a u16 can count
MidTuple == Fill(PAGE_SIZE \div 2, 5)
WideTuple == Fill(65536 + TABLE_PAGE_HEADER_SIZE, 4)

PageTupleInputs == TupleInputs \cup { <<>>, MidTuple, WideTuple }

PageRidInputs == [page_id : {1, 2}, slot_id : 0 .. PageMaxTuples]

NextPageIdInputs == {2, INVALID_PAGE_ID}

MetadataInputs == {0, 1}

InitPage == InitBpm /\ overflow_checks \in BOOLEAN

\* TablePage::init_header(next_page_id), the first call on a new page
PageInitHeader(next) ==
    /\ panic = ""
    /\ page_last.op = "none"
    /\ table_page' = [table_page EXCEPT !.data = init_header(@, next)]
    /\ page_last' = [op |-> "init_header", res |-> "ok", rid |-> NoRid,
                     tuple |-> <<>>, is_deleted |-> 0, data |-> <<>>]
    /\ UNCHANGED << bpm_vars, panic, caller_vars, disk_vars, lru_vars, thread_vars, heap_vars,
                    evict_vars >>

\* TablePage::insert_tuple(meta, tuple)
PageInsertTuple(tuple, meta) ==
    /\ panic = ""
    /\ page_last.op # "none"
    /\ \E i \in {insert_tuple(table_page.data, table_page.page_id, meta, tuple,
                               overflow_checks)} :
       /\ tuple_count(i.data) <= PageMaxTuples
       /\ table_page' = [table_page EXCEPT !.data = i.data]
       /\ panic' = IF i.res = "panic" THEN "attempt to subtract with overflow"
                   ELSE ""
       /\ page_last' = [op |-> "insert_tuple", res |-> i.res, rid |-> i.rid,
                        tuple |-> tuple, is_deleted |-> meta, data |-> <<>>]
    /\ UNCHANGED << bpm_vars, caller_vars, disk_vars, lru_vars, thread_vars, heap_vars,
                    evict_vars >>

\* TablePage::get_tuple(rid)
PageGetTuple(rid) ==
    /\ panic = ""
    /\ page_last.op # "none"
    /\ \E g \in {get_tuple(table_page.data, table_page.page_id, rid)} :
       page_last' = [op |-> "get_tuple", res |-> g.res, rid |-> rid,
                     tuple |-> <<>>, is_deleted |-> g.is_deleted, data |-> g.data]
    /\ UNCHANGED << bpm_vars, panic, caller_vars, disk_vars, lru_vars, thread_vars, heap_vars, table_page,
                    evict_vars >>

\* TablePage::update_tuple_metadata(rid, metadata)
PageUpdateTupleMetadata(rid, meta) ==
    /\ panic = ""
    /\ page_last.op # "none"
    /\ \E u \in {update_tuple_metadata(table_page.data, table_page.page_id, rid,
                                        meta)} :
       /\ table_page' = [table_page EXCEPT !.data = u.data]
       /\ page_last' = [op |-> "update_tuple_metadata", res |-> u.res, rid |-> rid,
                        tuple |-> <<>>, is_deleted |-> meta, data |-> <<>>]
    /\ UNCHANGED << bpm_vars, panic, caller_vars, disk_vars, lru_vars, thread_vars, heap_vars,
                    evict_vars >>

NextPage ==
    \/ \E next \in NextPageIdInputs : PageInitHeader(next)
    \/ \E t \in PageTupleInputs, m \in MetadataInputs : PageInsertTuple(t, m)
    \/ \E rid \in PageRidInputs : PageGetTuple(rid)
    \/ \E rid \in PageRidInputs, m \in MetadataInputs : PageUpdateTupleMetadata(rid, m)

SpecPage == InitPage /\ [][NextPage]_vars

\* ------------------------------------------------------------ properties

Live(f) == handles[f].ref + handles[f].mut > 0

Resident(f) == frames[f].page_id # INVALID_PAGE_ID

OnFreeList(f) == \E i \in 1 .. Len(free_list) : free_list[i] = f

Evictable(f) == f \in EvictableNodes(replacer)

Acquire == {"create_page_handle", "fetch_page_handle", "fetch_page_mut_handle"}

Fetch == {"fetch_page_handle", "fetch_page_mut_handle"}

\* C1: pin/unpin balance: once every handle returned by a create or fetch
\* (hit or miss) has been released, free_frame_count() equals pool_size.
C1_PinUnpinBalance ==
    (panic = "" /\ HandleCount = 0) => free_frame_count(Self) = PoolSize

C3_PinZeroIffFreeOrEvictable ==
    panic = "" =>
      \A f \in FrameIds : (frames[f].pin_cnt = 0) <=> (OnFreeList(f) \/ Evictable(f))

\* C4: availability after release: with a free frame or a resident page of pin
\* count 0, the next create (and the next fetch of a page present on disk)
\* succeeds; with the free list empty and exactly one resident page unpinned, the
\* new page takes that page's frame and the other resident pages keep theirs.
C4_AvailabilityAfterRelease ==
    [][ LET unpinned == {f \in FrameIds : Resident(f) /\ frames[f].pin_cnt = 0}
            wanted == \/ last'.op = "create_page_handle"
                      \/ /\ last'.op \in Fetch
                         /\ disk_read(disk_manager, last'.page_id).res = "some"
        IN (panic = "" /\ wanted /\ (free_list # <<>> \/ unpinned # {})) =>
             /\ last'.res = "ok"
             /\ (free_list = <<>> /\ Cardinality(unpinned) = 1 /\ ~last'.hit) =>
                  /\ last'.frame_id \in unpinned
                  /\ \A g \in FrameIds \ unpinned :
                       frames'[g].page_id = frames[g].page_id ]_vars

\* C5: with the free list empty and no evictable frame, a create or a fetch that
\* misses returns BufferPoolFull to the caller: the program does not abort and no
\* pinned page is evicted.
C5_BufferPoolFullIsRecoverable ==
    [][ ( /\ panic = ""
          /\ \/ last'.op = "create_page_handle"
             \/ /\ last'.op \in Fetch /\ ~last'.hit
                /\ disk_read(disk_manager, last'.page_id).res = "some"
          /\ free_list = <<>> /\ EvictableNodes(replacer) = {} ) =>
            /\ panic' = ""
            /\ last'.res = "BufferPoolFull"
            /\ page_table' = page_table ]_vars

\* C6: page-table consistency: every entry (p, f) has frames[f].page_id = p, and
\* a frame holds a valid page id exactly when some entry maps to it.
C6_PageTableConsistency ==
    panic = "" =>
      /\ \A p \in DOMAIN page_table : frames[page_table[p]].page_id = p
      /\ \A f \in FrameIds :
           Resident(f) <=> (\E p \in DOMAIN page_table : page_table[p] = f)

\* C6 witness: a page was evicted to make room and the table holds its successor.
C6_Witness ==
    /\ panic = ""
    /\ last.op \in Acquire /\ last.res = "ok" /\ last.victim # INVALID_PAGE_ID
    /\ last.victim \notin DOMAIN page_table
    /\ last.page_id \in DOMAIN page_table

\* C7: |free_list| + |page_table| = pool_size after any sequence of operations.
C7_FreePlusTableIsPoolSize ==
    Len(free_list) + Cardinality(DOMAIN page_table) = PoolSize

\* C7 witness: a resident page was deleted while another page is resident.
C7_Witness ==
    /\ last.op = "delete_page" /\ last.hit /\ last.res = "ok"
    /\ page_table # << >> /\ free_list # <<>>

\* C8: every frame on the free list has no page id, pin count 0, is clean, is
\* zeroed and has no replacer node; no frame is on the free list twice.
C8_FreeListInvariant ==
    panic = "" =>
      \A i \in 1 .. Len(free_list) :
        /\ frames[free_list[i]] = NewFrame
        /\ ~HasNode(replacer, free_list[i])
        /\ \A j \in 1 .. Len(free_list) : free_list[j] = free_list[i] => j = i

\* C8 witness: delete_page put a frame back whose page had been written.
C8_Witness ==
    /\ last.op = "delete_page" /\ last.hit /\ last.res = "ok"
    /\ free_list # <<>> /\ free_list[Len(free_list)] = last.frame_id
    /\ ByteAt(disk_manager.file[last.page_id + 1], 0) = DELETED_FLAG
    /\ replacer.current_timestamp > 0

\* C9: persistence across eviction: a fetch that misses on a page whose write
\* handle was released earlier (and that was not deleted) succeeds when a frame
\* can be had and yields the bytes the page had at that release.
C9_PersistenceAcrossEviction ==
    [][ ( /\ panic = ""
          /\ last'.op \in Fetch /\ ~last'.hit
          /\ last'.page_id \in DOMAIN released
          /\ FrameAvailable ) =>
            /\ last'.res = "ok"
            /\ frames'[last'.frame_id].data = released[last'.page_id] ]_vars

\* C10: insert/get round trip. For every tuple t with
\* |t| <= PAGE_SIZE - header size - slot size and every heap state,
\* TableHeap::insert_tuple(t) succeeds with some rid, and get_tuple(rid) then
\* returns metadata with is_deleted = false and data equal to t.
FitsEmptyPage(t) == ByteLen(t) <= PAGE_SIZE - TABLE_PAGE_HEADER_SIZE - TUPLE_INFO_SIZE

RoundTrip(t) ==
    /\ heap_last'.res = "ok"
    /\ LET g == heap_get_tuple(Self', heap_last'.rid) IN
       g.res = "ok" /\ g.is_deleted = 0 /\ g.data = t

C10_InsertGetRoundTrip ==
    [][\A t \in TupleInputs :
          (FitsEmptyPage(t) /\ HeapInsertTuple(t)) => RoundTrip(t)]_vars

\* C11: no overlap in a table page. After init_header and any sequence of
\* insert_tuple and update_tuple_metadata calls, the slot array ends at or
\* before the lowest tuple offset, every slot's tuple lies within the page,
\* and the byte ranges of distinct slots' tuples are pairwise disjoint.
SlotsOf(data) == 0 .. tuple_count(data) - 1

NoOverlap(data) ==
    /\ \A i \in SlotsOf(data) :
          /\ TABLE_PAGE_HEADER_SIZE + tuple_count(data) * TUPLE_INFO_SIZE
                <= SlotAt(data, i).offset
          /\ SlotAt(data, i).offset + SlotAt(data, i).size_bytes <= PAGE_SIZE
    /\ \A i, j \in SlotsOf(data) :
          i # j => \/ SlotAt(data, i).offset + SlotAt(data, i).size_bytes
                        <= SlotAt(data, j).offset
                   \/ SlotAt(data, j).offset + SlotAt(data, j).size_bytes
                        <= SlotAt(data, i).offset

C11_NoOverlap == NoOverlap(table_page.data)

C11_Witness ==
    /\ page_last.op = "update_tuple_metadata"
    /\ page_last.res = "ok"
    /\ tuple_count(table_page.data) = PageMaxTuples
    /\ \E i \in SlotsOf(table_page.data) : SlotAt(table_page.data, i).size_bytes > 1000

\* C12: table-page insert_tuple returns OutOfBounds for every tuple that does
\* not fit, that is whenever the tuple's length plus the header and
\* tuple_cnt + 1 slots exceeds the end of free space (PAGE_SIZE on an empty
\* page, else the last slot's offset), also for lengths beyond that end; and
\* on OutOfBounds the page's bytes and tuple_cnt are unchanged.
EndOfFreeSpace(data) ==
    IF tuple_count(data) = 0 THEN PAGE_SIZE
    ELSE SlotAt(data, tuple_count(data) - 1).offset

DoesNotFit(data, t) ==
    ByteLen(t) + TABLE_PAGE_HEADER_SIZE + (tuple_count(data) + 1) * TUPLE_INFO_SIZE
        > EndOfFreeSpace(data)

C12_OutOfBoundsWhenNoFit ==
    [][\A t \in PageTupleInputs, m \in MetadataInputs :
          PageInsertTuple(t, m) =>
             /\ DoesNotFit(table_page.data, t) => page_last'.res = "OutOfBounds"
             /\ page_last'.res = "OutOfBounds" => table_page' = table_page]_vars

\* C13: page overflow triggers allocation. When TableHeap::insert_tuple finds
\* the last page too full for a tuple that fits in an empty page (the pool has
\* at least two frames and no handle is outstanding), it creates a new page,
\* sets the old last page's next_page_id to the new page's id, inserts the
\* tuple at slot 0 of the new page, advances last_page_id and increments
\* page_cnt; the returned rid's page differs from every earlier rid's page and
\* all earlier tuples remain retrievable.
LastPageTooFull(t) ==
    /\ table_heap # NoHeap
    /\ FitsEmptyPage(t)
    /\ DoesNotFit(PageBytes(Self, table_heap.last_page_id), t)

EarlierRetrievable ==
    \A k \in 1 .. Len(inserted) :
        LET g == heap_get_tuple(Self', inserted[k].rid) IN
        g.res = "ok" /\ g.data = inserted[k].tuple

AllocatedNewPage(t) ==
    LET new_page_id == disk_manager.last_allocated_pid + 1 IN
    /\ heap_last'.res = "ok"
    /\ disk_manager'.last_allocated_pid = new_page_id
    /\ next_page_id(PageBytes(Self', table_heap.last_page_id)) = new_page_id
    /\ heap_last'.rid = [page_id |-> new_page_id, slot_id |-> 0]
    /\ table_heap'.last_page_id = new_page_id
    /\ table_heap'.page_cnt = table_heap.page_cnt + 1
    /\ \A k \in 1 .. Len(inserted) : inserted[k].rid.page_id # new_page_id
    /\ EarlierRetrievable

C13_OverflowAllocates ==
    [][\A t \in TupleInputs :
          (PoolSize >= 2 /\ LastPageTooFull(t) /\ HeapInsertTuple(t))
             => AllocatedNewPage(t)]_vars

\* the same, for the calls that return at all
C13_OverflowAllocatesUnlessPanic ==
    [][\A t \in TupleInputs :
          (PoolSize >= 2 /\ LastPageTooFull(t) /\ HeapInsertTuple(t)
             /\ heap_last'.res # "panic")
             => (AllocatedNewPage(t) \/ \E k \in 1 .. Len(inserted) :
                     heap_get_tuple(Self', inserted[k].rid).res = "panic")]_vars

\* C14: heap chain invariant. After TableHeap::new and any sequence of
\* insert_tuple / get_tuple / delete_tuple calls, successful or failed (an
\* insert of a tuple too large for any page included), the pages reachable
\* from first_page_id by following next_page_id form an acyclic chain of
\* exactly page_cnt pages whose final page is last_page_id, and the page
\* last_page_id has next_page_id = INVALID_PAGE_ID.
RECURSIVE ChainFrom(_, _, _)
ChainFrom(s, p, fuel) ==
    IF p = INVALID_PAGE_ID \/ fuel = 0 THEN << >>
    ELSE << p >> \o ChainFrom(s, next_page_id(PageBytes(s, p)), fuel - 1)

HeapChain == ChainFrom(Self, table_heap.first_page_id, HeapMaxPages + 2)

C14_HeapChain ==
    (panic = "" /\ table_heap # NoHeap) =>
        /\ Len(HeapChain) = table_heap.page_cnt
        /\ \A i, j \in 1 .. Len(HeapChain) : i # j => HeapChain[i] # HeapChain[j]
        /\ HeapChain[Len(HeapChain)] = table_heap.last_page_id
        /\ next_page_id(PageBytes(Self, table_heap.last_page_id)) = INVALID_PAGE_ID

\* the same while no insert_tuple has failed
C14_HeapChainWhileInsertsSucceed ==
    [][C14_HeapChain /\ (heap_last'.op = "insert_tuple" => heap_last'.res = "ok")
          => C14_HeapChain']_vars

\* C15: iteration skips deletes. For any sequence of inserts and delete_tuple
\* calls on a heap, the heap tuple iterator yields exactly the (rid, data)
\* pairs of the inserted tuples whose slot metadata is not is_deleted, each
\* once, in insertion order, and yields no tuple whose is_deleted is true.
IsPrefix(a, b) == Len(a) <= Len(b) /\ a = SubSeq(b, 1, Len(a))

C15_IterationSkipsDeletes ==
    /\ iter.state = "active" => IsPrefix(iter.yielded, iter.expected)
    /\ iter.state = "done" => iter.res = "none" /\ iter.yielded = iter.expected

\* the same, for the iterations that do not panic
C15_IterationSkipsDeletesUnlessPanic ==
    iter.res # "panic" => C15_IterationSkipsDeletes

\* C16: multi-page iteration is complete. For a heap whose tuples span any
\* number of pages (more or fewer than pool_size, pool_size >= 2), iterating
\* from first_page_id while holding no other handles visits every page of the
\* chain in order and yields every inserted tuple with the RecordId that
\* insert_tuple returned, without failing for lack of a free frame.
C16_MultiPageIterationComplete ==
    /\ page_iter.state = "active" =>
          page_iter.res \in {"none", "some"} /\ IsPrefix(page_iter.visited, HeapChain)
    /\ page_iter.state = "done" =>
          page_iter.res = "none" /\ page_iter.visited = HeapChain
    /\ iter.state # "none" =>
          /\ iter.res \in {"none", "some"}
          /\ \A k \in 1 .. Len(iter.yielded) :
                \E j \in 1 .. Len(inserted) : inserted[j] = iter.yielded[k]
    /\ iter.state = "done" => Len(iter.yielded) = Len(iter.expected)

\* the same, for the iterations that do not panic
C16_MultiPageIterationCompleteUnlessPanic ==
    (iter.res # "panic" /\ page_iter.res # "panic") => C16_MultiPageIterationComplete

\* C17: delete idempotence. For any valid rid, delete_tuple(rid) followed by
\* delete_tuple(rid) both succeed, leave the slot's is_deleted true, leave the
\* page in the same state as after a single delete_tuple(rid), and the
\* iterator skips rid after either.
ValidRid(rid) == \E k \in 1 .. Len(inserted) : inserted[k].rid = rid

\* the rids a TableTupleIterator created in state s yields until it stops
RECURSIVE IterRids(_, _, _)
IterRids(s, it, fuel) ==
    IF fuel = 0 THEN {}
    ELSE Bind(iter_next(s, it), LAMBDA r :
         IF r.res = "some" THEN {r.rid} \cup IterRids(r.s, r.it, fuel - 1)
         ELSE {})

IteratorSkips(s, rid) ==
    rid \notin IterRids(s, [current_page_id |-> table_heap.first_page_id,
                            current_slot |-> 0],
                        HeapMaxPages * (MaxSlot + 1) + 1)

IsDeletedIn(s, rid) == SlotAt(PageBytes(s, rid.page_id), rid.slot_id).is_deleted = 1

DeletedTwice(rid) ==
    /\ heap_last'.res = "ok"
    /\ IsDeletedIn(Self', rid)
    /\ IteratorSkips(Self', rid)
    /\ LET again == heap_delete_tuple(Self', rid) IN
       /\ again.res = "ok"
       /\ IsDeletedIn(again.s, rid)
       /\ PageBytes(again.s, rid.page_id) = PageBytes(Self', rid.page_id)
       /\ IteratorSkips(again.s, rid)

C17_DeleteIdempotent ==
    [][\A rid \in RidInputs :
          (ValidRid(rid) /\ HeapDeleteTuple(rid)) => DeletedTwice(rid)]_vars

\* the same, for the calls that return
C17_DeleteIdempotentUnlessPanic ==
    [][\A rid \in RidInputs :
          (ValidRid(rid) /\ HeapDeleteTuple(rid) /\ heap_last'.res # "panic"
             /\ heap_delete_tuple(Self', rid).res # "panic")
             => DeletedTwice(rid)]_vars

\* C18: monotone ids. Successive successful allocate_page calls return
\* strictly increasing PageIds, the first being 1 (page 0 is never returned),
\* regardless of interleaved deallocate_page, read and write calls; a
\* deallocated id is never returned again.
Returned(log) == { log.allocated[i] : i \in 1 .. Len(log.allocated) }

C18_MonotoneIds ==
    [][DiskAllocate =>
          /\ disk_log'.res = "ok"
          /\ disk_log'.page_id >= 1
          /\ disk_log.allocated = <<>> => disk_log'.page_id = 1
          /\ \A q \in Returned(disk_log) : q < disk_log'.page_id
          /\ disk_log'.page_id \notin Returned(disk_log) \cap disk_log.deallocated
          /\ disk_log'.page_id = disk_manager'.last_allocated_pid]_vars

C18_Witness ==
    /\ disk_log.op = "allocate_page"
    /\ Len(disk_log.allocated) >= 2
    /\ Returned(disk_log) \cap disk_log.deallocated # {}
    /\ \E q \in DOMAIN disk_log.written : disk_log.written[q] = SevensPage

\* C19: after deallocate_page(p), every subsequent DiskManager::read(p)
\* returns None, while reads of every other page q # p still return the bytes
\* last written to q.
ReadOfDeallocatedIsNone ==
    (disk_log.op = "read" /\ disk_log.page_id \in disk_log.deallocated)
        => disk_log.res = "none"

ReadOfOtherIsLastWritten ==
    (/\ disk_log.op = "read"
     /\ disk_log.deallocated # {}
     /\ disk_log.page_id \notin disk_log.deallocated
     /\ disk_log.page_id \in DOMAIN disk_log.written)
        => /\ disk_log.res = "some"
           /\ disk_log.data = disk_log.written[disk_log.page_id]

C19_DeallocatedReadsNone == ReadOfDeallocatedIsNone /\ ReadOfOtherIsLastWritten

\* C20: fetch_page of a page that is not resident and that the disk reports
\* absent (tombstoned by delete_page, or never allocated) fails with the
\* recoverable IO error returned to the caller; no handle is produced for it.
DiskAbsent(p) == disk_read(disk_manager, p).res # "some"

C20_AbsentPageIsIoError ==
    [][\A p \in PageIdInputs :
          (/\ p \notin DOMAIN page_table
           /\ DiskAbsent(p)
           /\ (FetchPageHandle(p) \/ FetchPageMutHandle(p)))
             => /\ panic' = ""
                /\ last'.res = "IO"
                /\ handles' = handles]_vars

\* what the fetch of an absent page does instead
C20_AbsentPagePanics ==
    [][\A p \in PageIdInputs :
          (/\ p \notin DOMAIN page_table
           /\ DiskAbsent(p)
           /\ (FetchPageHandle(p) \/ FetchPageMutHandle(p)))
             => /\ panic' \in {"disk read failed", "disk read found no page",
                               "Failed to evict a frame"}
                /\ handles' = handles]_vars

\* C21: LRU victim selection. After any sequence of record_access / pin /
\* unpin / remove / evict calls, evict() returns the evictable frame whose
\* most recent record_access is the oldest among evictable frames (uniquely
\* determined, since no two accesses share a timestamp), removes that node,
\* and returns None exactly when no node is evictable; a frame re-accessed
\* after being evicted is re-inserted as most recently used.
OldestEvictable(order, r) ==
    LET live == SelectSeq(order, LAMBDA f : f \in EvictableNodes(r)) IN Head(live)

UniqueTimestamps(r) ==
    \A f, g \in DOMAIN r.node_store :
        f # g => r.node_store[f].last_accessed_timestamp
                    # r.node_store[g].last_accessed_timestamp

MostRecentlyUsed(r, f) ==
    /\ f \in DOMAIN r.node_store
    /\ \A g \in DOMAIN r.node_store \ {f} :
          r.node_store[g].last_accessed_timestamp
             < r.node_store[f].last_accessed_timestamp

C21_LruVictim ==
    [][/\ UniqueTimestamps(replacer')
       /\ LruEvict =>
             /\ lru_log'.some <=> EvictableNodes(replacer) # {}
             /\ lru_log'.some =>
                   /\ lru_log'.frame_id = OldestEvictable(lru_log.order, replacer)
                   /\ lru_log'.frame_id \notin DOMAIN replacer'.node_store
             /\ ~lru_log'.some => replacer' = replacer
       /\ \A f \in LruFrameIds :
             LruRecordAccess(f) => MostRecentlyUsed(replacer', f)]_vars

C21_Witness ==
    /\ lru_log.op = "evict"
    /\ lru_log.some
    /\ Len(lru_log.order) >= 2
    /\ lru_log.order[1] \notin EvictableNodes(replacer)
    /\ lru_log.order[2] \in EvictableNodes(replacer)
    /\ lru_log.frame_id < lru_log.order[1]

\* C30: LRU counter invariant. After any sequence of record_access, pin,
\* unpin, evict and remove calls (pin/unpin on absent or already
\* pinned/unpinned frames being no-ops, so pin;pin = pin and unpin;unpin =
\* unpin), evictable_count() equals the number of nodes in the replacer whose
\* is_evictable flag is true and never underflows.
C30_EvictableCount ==
    /\ evictable_count(replacer) = Cardinality(EvictableNodes(replacer))
    /\ evictable_count(replacer) >= 0
    /\ \A f \in LruFrameIds :
          /\ pin(pin(replacer, f), f) = pin(replacer, f)
          /\ unpin(unpin(replacer, f), f) = unpin(replacer, f)
          /\ ~HasNode(replacer, f) =>
                pin(replacer, f) = replacer /\ unpin(replacer, f) = replacer
          /\ (HasNode(replacer, f) /\ ~replacer.node_store[f].is_evictable) =>
                pin(replacer, f) = replacer
          /\ (HasNode(replacer, f) /\ replacer.node_store[f].is_evictable) =>
                unpin(replacer, f) = replacer

C30_Witness ==
    /\ lru_log.op = "pin"
    /\ evictable_count(replacer) = 1
    /\ Cardinality(DOMAIN replacer.node_store) = 3
    /\ HasNode(replacer, lru_log.frame_id)
    /\ lru_log.order[1] = lru_log.frame_id

LiveHandles(f) == handles[f].ref + handles[f].mut

IsRelease == last'.op \in {"drop_ref", "drop_mut"} /\ handles' # handles

\* C22 (the part that holds): nested pinning while handles are live: a frame with
\* N > 0 live handles, read or write, has pin count N and is not evictable, and
\* a release that leaves a handle live leaves the frame non-evictable.
C22_NestedPinningWhileLive ==
    [][ panic' = "" =>
          \A f \in FrameIds :
            LiveHandles(f)' > 0 =>
              /\ frames'[f].pin_cnt = LiveHandles(f)'
              /\ f \notin EvictableNodes(replacer') ]_vars

\* C22: nested pinning: a page fetched N times has pin count N and is not
\* evictable while any of its N handles is live, and it becomes evictable at
\* the release of the N-th handle, not at an earlier one.
C22_NestedPinning ==
    [][ panic' = "" =>
          \A f \in FrameIds :
            /\ LiveHandles(f)' > 0 =>
                 /\ frames'[f].pin_cnt = LiveHandles(f)'
                 /\ f \notin EvictableNodes(replacer')
            /\ (IsRelease /\ last'.frame_id = f /\ LiveHandles(f)' = 0) =>
                 /\ frames'[f].pin_cnt = 0
                 /\ f \in EvictableNodes(replacer') ]_vars

C24_HeapReleasesPins ==
    (panic = "" /\ HandleCount = 0) => \A f \in FrameIds : frames[f].pin_cnt = 0

\* C24 witness: an insert that went down the overflow path, allocated a page and
\* returned OutOfBounds, with both pages resident.
C24_Witness ==
    /\ panic = ""
    /\ heap_last.op = "insert_tuple" /\ heap_last.res = "OutOfBounds"
    /\ disk_manager.last_allocated_pid >= 2
    /\ \A f \in FrameIds : Resident(f) /\ frames[f].is_dirty

\* the thread is inside a BufferPoolManager operation: a handle constructor
\* past its bpm.write(), or the unpin_page of a handle's Drop
InBpm(t) == threads[t].pc \in {"locked", "unpinning"}

\* the thread holds a live handle (a handle being dropped is live until
\* unpin_page has returned)
HoldsHandle(t) == threads[t].pc \in {"holding", "unpinning"}

\* C25: coarse-lock serialisation: every BufferPoolManager operation, the
\* unpin_page of a handle release included, runs with the lock held from start
\* to end, so no two threads are inside an operation at the same time.
C25_CoarseLockSerialisation ==
    /\ \A t \in Threads : InBpm(t) => lock = t
    /\ \A t, u \in Threads : (InBpm(t) /\ InBpm(u)) => t = u

\* C26: exclusive frame mutation: at most one thread holds a write handle to a
\* page, and no other thread holds a read handle to a page while a thread holds
\* a write handle to it.
C26_ExclusiveFrameMutation ==
    \A t, u \in Threads :
       ( /\ t # u
         /\ HoldsHandle(t) /\ HoldsHandle(u)
         /\ threads[t].kind = "mut"
         /\ panic = "" )
       => frames[threads[t].frame_id].page_id # frames[threads[u].frame_id].page_id

\* what a failed acquisition must leave alone: page table, free list, every
\* frame's page id, pin count and dirty flag, the replacer and the disk
\* manager's last allocated page id
AcquisitionState(s) ==
    [page_table |-> s.page_table,
     free_list |-> s.free_list,
     frames |-> [f \in FrameIds |-> [page_id |-> s.frames[f].page_id,
                                     pin_cnt |-> s.frames[f].pin_cnt,
                                     is_dirty |-> s.frames[f].is_dirty]],
     replacer |-> s.replacer,
     last_allocated_pid |-> s.disk_manager.last_allocated_pid]

\* C27: a failed page acquisition changes nothing: when create_page or a fetch
\* that misses fails (no free or evictable frame, or the page is absent on
\* disk), the page table, the free list, every frame's page id, pin count and
\* dirty flag, the replacer and the last allocated page id are as before.
C27_FailedAcquisitionChangesNothing ==
    [][ ( /\ panic = ""
          /\ last'.op \in Acquire /\ ~last'.hit
          /\ last'.res # "ok" )
        => AcquisitionState(Self') = AcquisitionState(Self) ]_vars

\* C28: disk write/read round trip: for an allocated page p never deallocated
\* and PAGE_SIZE bytes b, whatever the first byte of b, a read(p) that follows
\* write(p, b) returns Some(b); and read(p) returns None only when
\* deallocate_page(p) was called.
C28_WriteReadRoundTrip ==
    disk_log.op = "read" =>
      /\ ( /\ disk_log.page_id \in Returned(disk_log)
           /\ disk_log.page_id \notin disk_log.deallocated
           /\ disk_log.page_id \in DOMAIN disk_log.written
           /\ ByteLen(disk_log.written[disk_log.page_id]) = PAGE_SIZE_BYTES )
         => /\ disk_log.res = "some"
            /\ disk_log.data = disk_log.written[disk_log.page_id]
      /\ disk_log.res = "none" => disk_log.page_id \in disk_log.deallocated

\* the same for contents whose first byte is not 1
C28_RoundTripUnlessFirstByteOne ==
    disk_log.op = "read" =>
      /\ ( /\ disk_log.page_id \in Returned(disk_log)
           /\ disk_log.page_id \notin disk_log.deallocated
           /\ disk_log.page_id \in DOMAIN disk_log.written
           /\ ByteLen(disk_log.written[disk_log.page_id]) = PAGE_SIZE_BYTES
           /\ ByteAt(disk_log.written[disk_log.page_id], 0) # DELETED_FLAG )
         => /\ disk_log.res = "some"
            /\ disk_log.data = disk_log.written[disk_log.page_id]
      /\ disk_log.res = "none" =>
            \/ disk_log.page_id \in disk_log.deallocated
            \/ ByteAt(disk_log.written[disk_log.page_id], 0) = DELETED_FLAG

\* get_tuple(rid) called now returns the tuple inserted under rid
Retrievable(s, ins) ==
    LET g == heap_get_tuple(s, ins.rid) IN g.res = "ok" /\ g.data = ins.tuple

\* the is_deleted flag in the slot of rid, read from the page's bytes
DeletedFlag(s, rid) == SlotAt(PageBytes(s, rid.page_id), rid.slot_id).is_deleted

\* C29: stored tuples are stable: once insert_tuple has returned rid for t,
\* every later get_tuple(rid) returns data equal to t, whatever inserts,
\* deletes, evictions and re-fetches came between; only the is_deleted flag of
\* rid can change, and only through delete_tuple(rid).
C29_StoredTuplesStable ==
    [][ (panic = "" /\ panic' = "") =>
        \A k \in 1 .. Len(inserted') :
           /\ Retrievable(Self', inserted'[k])
           /\ (k <= Len(inserted) /\
               DeletedFlag(Self', inserted[k].rid) # DeletedFlag(Self, inserted[k].rid))
              => /\ heap_last'.op = "delete_tuple"
                 /\ heap_last'.rid = inserted[k].rid ]_vars

\* the same in the states the heap's calls return to, for the tuples whose
\* page can still be fetched
C29_StableWhileFetchable ==
    [][ (panic = "" /\ panic' = "") =>
        \A k \in 1 .. Len(inserted') :
           /\ heap_get_tuple(Self', inserted'[k].rid).res # "panic"
                => Retrievable(Self', inserted'[k])
           /\ (k <= Len(inserted) /\
               DeletedFlag(Self', inserted[k].rid) # DeletedFlag(Self, inserted[k].rid))
              => /\ heap_last'.op = "delete_tuple"
                 /\ heap_last'.rid = inserted[k].rid ]_vars

\* C31: the dirty flag is sticky: the release of a write handle marks the frame
\* dirty, a dirty frame stays dirty while it holds the same page (through any
\* release of read handles) and its bytes are written to disk when the page is
\* evicted, and a frame turns dirty by nothing but the release
\* of a write handle on it, so a page touched only through read handles since
\* it was loaded is never dirty.
C31_DirtySticky ==
    [][ panic' = "" =>
        \A f \in FrameIds :
          /\ (last'.op = "drop_mut" /\ last'.frame_id = f) => frames'[f].is_dirty
          /\ (frames[f].is_dirty /\ frames'[f].page_id = frames[f].page_id)
               => frames'[f].is_dirty
          /\ (frames[f].is_dirty /\ frames'[f].page_id # frames[f].page_id
              /\ last'.op \in Acquire)
               => disk_manager'.file[frames[f].page_id + 1] = frames[f].data
          /\ (frames'[f].is_dirty /\ ~frames[f].is_dirty)
               => (last'.op = "drop_mut" /\ last'.frame_id = f) ]_vars

\* C31 witness: a read handle was released on a frame that an earlier release
\* of a write handle left dirty.
C31_Witness ==
    /\ panic = ""
    /\ last.op = "drop_ref"
    /\ frames[last.frame_id].is_dirty
    /\ frames[last.frame_id].page_id = last.page_id

\* the victim's bytes are in the file at the victim's page id
VictimOnDisk ==
    disk_manager.file[eviction.victim + 1] = eviction.bytes

\* while a fetch reuses a frame: the victim has left the page table, or the
\* frame no longer holds the victim's id and bytes, only once the victim's
\* bytes are on disk
WrittenBeforeReuse ==
    (eviction.pc # "idle" /\ eviction.dirty) =>
       LET f == eviction.frame_id IN
       /\ eviction.pc = "evicted" =>
            /\ eviction.victim \in DOMAIN page_table
            /\ frames[f].page_id = eviction.victim /\ frames[f].data = eviction.bytes
       /\ ( \/ eviction.victim \notin DOMAIN page_table
            \/ frames[f].page_id # eviction.victim
            \/ frames[f].data # eviction.bytes
            \/ eviction.page_id \in DOMAIN page_table ) => VictimOnDisk

\* C32: eviction ordering: when a frame holding dirty page q is reused for page
\* p, q's bytes are on disk at q's id before q leaves the page table, before
\* the frame is reset and before p is read into the frame; the only write to
\* the file during the fetch puts q's bytes at q's id, and the frame ends up
\* with the bytes stored at p's id.
C32_EvictionOrdering ==
    [][ /\ WrittenBeforeReuse'
        /\ (eviction.pc # "idle" /\ disk_manager' # disk_manager) =>
              /\ eviction.pc = "evicted" /\ eviction.dirty
              /\ disk_manager'.file =
                   [disk_manager.file EXCEPT ![eviction.victim + 1] = eviction.bytes]
              /\ eviction.victim # eviction.page_id
        /\ (eviction.pc = "installed" /\ panic' = "") =>
              /\ frames'[eviction.frame_id].data =
                   disk_manager.file[eviction.page_id + 1]
              /\ eviction.dirty => VictimOnDisk ]_vars

\* C32 witness: the frame of a dirty victim whose bytes were written through a
\* handle has been given to another page, whose read is still to come.
C32_Witness ==
    /\ panic = ""
    /\ eviction.pc = "installed" /\ eviction.dirty
    /\ eviction.bytes # EMPTY_BUFFER
    /\ eviction.victim # eviction.page_id
    /\ VictimOnDisk
    /\ frames[eviction.frame_id].page_id = eviction.page_id

\* C33: free list first: a create or a fetch that misses while the free list is
\* non-empty takes the frame at the head of the free list; no resident page
\* leaves the page table or its frame, no node leaves the replacer and no page
\* already in the file is rewritten.
C33_FreeListFirst ==
    [][ ( /\ panic = ""
          /\ last'.op \in Acquire /\ ~last'.hit
          /\ free_list # <<>> )
        => /\ last'.frame_id = Head(free_list)
           /\ free_list' = Tail(free_list)
           /\ \A p \in DOMAIN page_table :
                 p \in DOMAIN page_table' /\ page_table'[p] = page_table[p]
           /\ \A f \in FrameIds \ {Head(free_list)} : frames'[f] = frames[f]
           /\ \A f \in FrameIds : HasNode(replacer, f) => HasNode(replacer', f)
           /\ \A i \in 1 .. Len(disk_manager.file) :
                 disk_manager'.file[i] = disk_manager.file[i] ]_vars

\* C33 witness: a frame came from the free list while a dirty resident page
\* was evictable.
C33_Witness ==
    /\ panic = ""
    /\ last.op \in Acquire /\ ~last.hit /\ last.res = "ok"
    /\ \E g \in FrameIds \ {last.frame_id} :
          Evictable(g) /\ frames[g].is_dirty /\ Resident(g)

RemoveOfEvictable(r, f) ==
    LET rm == remove(r, f) IN
    /\ rm.panic = ""
    /\ ~HasNode(rm.r, f)
    /\ rm.r.node_store = StoreDel(r.node_store, f)
    /\ rm.r.evictable_count = r.evictable_count - 1

\* C35: in every execution of the buffer pool manager, delete_page hands
\* replacer.remove either a frame without a node or an evictable node, so the
\* panic of remove is never raised; and remove called on an evictable node
\* deletes that node and decrements evictable_count by one.
C35_RemoveOnlyEvictable ==
    /\ [](panic # "replacer remove of a non-evictable frame")
    /\ [](\A f \in FrameIds :
            (HasNode(replacer, f) /\ replacer.node_store[f].is_evictable)
                => RemoveOfEvictable(replacer, f))
    /\ [][ (panic = "" /\ last'.op = "delete_page" /\ last'.hit
            /\ frames[last'.frame_id].pin_cnt = 0) =>
           LET f == last'.frame_id
               r == unpin(replacer, f)
           IN /\ HasNode(r, f) => r.node_store[f].is_evictable
              /\ HasNode(replacer, f) =>
                    /\ ~HasNode(replacer', f)
                    /\ replacer'.evictable_count = r.evictable_count - 1 ]_vars

\* C35 witness: delete_page has removed the node of its frame while the
\* replacer still holds an evictable node of another frame.
C35_Witness ==
    /\ panic = ""
    /\ last.op = "delete_page" /\ last.hit
    /\ ~HasNode(replacer, last.frame_id)
    /\ OnFreeList(last.frame_id)
    /\ \E g \in FrameIds \ {last.frame_id} :
          HasNode(replacer, g) /\ replacer.node_store[g].is_evictable

\* C36: unpin_page(p, is_dirty) for a page p that is not in the page table
\* leaves the buffer pool as it was: every frame (pin count, dirty flag, bytes),
\* the page table, the free list and the replacer are unchanged, and so is the
\* disk; the call does not fail.
C36_UnpinOfAbsentPage ==
    [][ (panic = "" /\ last'.op = "unpin_page" /\ ~last'.hit) =>
        /\ last'.page_id \notin DOMAIN page_table
        /\ frames' = frames
        /\ page_table' = page_table
        /\ free_list' = free_list
        /\ replacer' = replacer
        /\ disk_manager' = disk_manager
        /\ panic' = "" ]_vars

\* C36 witness: unpin_page with is_dirty was called for a page that is not in
\* the page table while a clean page was resident and pinned.
C36_Witness ==
    /\ panic = ""
    /\ last.op = "unpin_page" /\ ~last.hit
    /\ last.page_id \notin DOMAIN page_table
    /\ \E f \in FrameIds :
          Resident(f) /\ frames[f].pin_cnt > 0 /\ ~frames[f].is_dirty

\* C37: delete_tuple(rid) returns the metadata and the bytes the tuple had
\* before the call and changes nothing on the page but the is_deleted flag of
\* slot rid.slot: tuple_cnt, next_page_id, every slot's offset and size, every
\* other slot's flag and every other byte of the page are as before.
C37_DeleteChangesOneFlag ==
    [][ (panic = "" /\ panic' = ""
         /\ heap_last'.op = "delete_tuple" /\ heap_last'.res = "ok") =>
        LET rid == heap_last'.rid
            before == PageBytes(Self, rid.page_id)
            after == PageBytes(Self', rid.page_id)
            old == SlotAt(before, rid.slot_id)
            flag == TABLE_PAGE_HEADER_SIZE + rid.slot_id * TUPLE_INFO_SIZE + 4
        IN /\ heap_last'.is_deleted = old.is_deleted
           /\ heap_last'.data = Slice(before, old.offset, old.size_bytes)
           /\ SlotAt(after, rid.slot_id).is_deleted = 1
           /\ tuple_count(after) = tuple_count(before)
           /\ next_page_id(after) = next_page_id(before)
           /\ \A k \in 0 .. tuple_count(before) - 1 :
                 /\ SlotAt(after, k).offset = SlotAt(before, k).offset
                 /\ SlotAt(after, k).size_bytes = SlotAt(before, k).size_bytes
                 /\ k # rid.slot_id =>
                       SlotAt(after, k).is_deleted = SlotAt(before, k).is_deleted
                 /\ Slice(after, SlotAt(before, k).offset, SlotAt(before, k).size_bytes)
                       = Slice(before, SlotAt(before, k).offset,
                               SlotAt(before, k).size_bytes)
           /\ Slice(after, 0, flag) = Slice(before, 0, flag)
           /\ Slice(after, flag + 1, PAGE_SIZE - flag - 1)
                 = Slice(before, flag + 1, PAGE_SIZE - flag - 1) ]_vars

\* C37 witness: a tuple of a page that holds two tuples was deleted and the
\* other one is not marked deleted.
C37_Witness ==
    /\ panic = ""
    /\ heap_last.op = "delete_tuple" /\ heap_last.res = "ok"
    /\ heap_last.is_deleted = 0
    /\ LET data == PageBytes(Self, heap_last.rid.page_id) IN
       /\ tuple_count(data) >= 2
       /\ \E k \in 0 .. tuple_count(data) - 1 :
             k # heap_last.rid.slot_id /\ SlotAt(data, k).is_deleted = 0

\* the pages the page iterator has returned are distinct and no more than
\* page_cnt; the tuples the tuple iterator has yielded are no more than were
\* inserted
BoundedVisits ==
    /\ Len(page_iter.visited) <= table_heap.page_cnt
    /\ \A i, j \in 1 .. Len(page_iter.visited) :
          i # j => page_iter.visited[i] # page_iter.visited[j]
    /\ Len(iter.yielded) <= Len(inserted)

\* an iterator that has stopped holds no pin
DoneHoldsNoPin ==
    /\ (iter.state = "done" /\ iter.res = "none")
          => \A f \in FrameIds : frames[f].pin_cnt = 0
    /\ (page_iter.state = "done" /\ page_iter.res = "none")
          => /\ page_iter.held = INVALID_PAGE_ID
             /\ \A f \in FrameIds : frames[f].pin_cnt = 0

\* C38: iteration terminates. For every heap built by TableHeap::new, inserts
\* and deletes, every next() of the tuple iterator and of the page iterator
\* returns (Some or None, never a panic), the page iterator returns at most
\* page_cnt pages, each once, and the tuple iterator at most the inserted
\* tuples, so None is returned after finitely many calls; an iterator that
\* has returned None holds no pin.
C38_IterationTerminates ==
    /\ iter.res # "panic" /\ page_iter.res # "panic"
    /\ BoundedVisits
    /\ DoneHoldsNoPin

\* for the iterations that do not panic: the page iterator returns at most the
\* pages of the chain from first_page_id (which a failed insert can make longer
\* than page_cnt), each once
C38_TerminatesUnlessPanic ==
    (iter.res # "panic" /\ page_iter.res # "panic" /\ panic = "")
        => /\ Len(page_iter.visited) <= Len(HeapChain)
           /\ \A i, j \in 1 .. Len(page_iter.visited) :
                 i # j => page_iter.visited[i] # page_iter.visited[j]
           /\ Len(iter.yielded) <= Len(inserted)
           /\ DoneHoldsNoPin

\* the pins of a stopped iterator alone
C38_DoneHoldsNoPin == panic = "" => DoneHoldsNoPin

\* the next id and its byte offset are representable in PageIdBits bits
NextIdRepresentable ==
    /\ disk_manager.last_allocated_pid + 1 < Pow2(PageIdBits)
    /\ (disk_manager.last_allocated_pid + 1) * PAGE_SIZE_BYTES < Pow2(PageIdBits)

\* C39: page-id overflow is a typed error. With PageIdBits-wide page ids, when
\* the next page id or its byte offset is not representable allocate_page
\* returns ArithmeticOverflow and leaves the disk manager as it was (no id is
\* consumed); the id counter never decreases.
C39_OverflowIsTypedError ==
    [][ (panic = "" /\ disk_log'.op = "allocate_page") =>
        /\ disk_manager'.last_allocated_pid >= disk_manager.last_allocated_pid
        /\ ~NextIdRepresentable =>
              /\ panic' = ""
              /\ disk_log'.res = "ArithmeticOverflow"
              /\ disk_manager' = disk_manager ]_vars

\* the part about the offset alone: while the next id itself is representable,
\* an offset that is not makes allocate_page return ArithmeticOverflow and
\* leave the file as it was, and a representable one makes it return the id
C39_OffsetOverflowIsTyped ==
    [][ (panic = "" /\ disk_log'.op = "allocate_page"
         /\ disk_manager.last_allocated_pid + 1 < Pow2(PageIdBits)) =>
        /\ panic' = ""
        /\ disk_manager'.last_allocated_pid = disk_manager.last_allocated_pid + 1
        /\ IF NextIdRepresentable
           THEN disk_log'.res = "ok"
                /\ disk_log'.page_id = disk_manager'.last_allocated_pid
           ELSE disk_log'.res = "ArithmeticOverflow"
                /\ disk_manager'.file = disk_manager.file ]_vars

\* the counter alone: it never decreases (a build without overflow checks
\* breaks this at the allocation after id 2^PageIdBits - 1, which returns 0)
C39_CounterNeverWraps ==
    [][disk_manager'.last_allocated_pid >= disk_manager.last_allocated_pid]_vars

\* C40: record-id validation. TablePage get_tuple and update_tuple_metadata
\* return InvalidInput and leave the page as it was for every rid whose page id
\* differs from the page's or whose slot is >= tuple_cnt; for every rid with the
\* page's id and a slot < tuple_cnt they succeed, also when the slot is marked
\* deleted: get_tuple returns the slot's metadata and bytes and changes nothing,
\* update_tuple_metadata stores the metadata in the slot.
C40_RecordIdValidation ==
    [][ page_last'.op \in {"get_tuple", "update_tuple_metadata"} =>
        LET rid == page_last'.rid
            valid == /\ rid.page_id = table_page.page_id
                     /\ rid.slot_id < tuple_count(table_page.data)
            slot == SlotAt(table_page.data, rid.slot_id)
        IN /\ ~valid => /\ page_last'.res = "InvalidInput"
                        /\ table_page' = table_page
           /\ valid =>
                /\ page_last'.res = "ok"
                /\ page_last'.op = "get_tuple" =>
                      /\ table_page' = table_page
                      /\ page_last'.is_deleted = slot.is_deleted
                      /\ page_last'.data
                            = Slice(table_page.data, slot.offset, slot.size_bytes)
                /\ page_last'.op = "update_tuple_metadata" =>
                      /\ SlotAt(table_page'.data, rid.slot_id).is_deleted
                            = page_last'.is_deleted
                      /\ tuple_count(table_page'.data) = tuple_count(table_page.data)
                      /\ table_page'.page_id = table_page.page_id ]_vars

\* C40 witness: get_tuple has succeeded on a slot that is marked deleted, on a
\* page that has a live slot as well.
C40_Witness ==
    /\ page_last.op = "get_tuple" /\ page_last.res = "ok"
    /\ page_last.is_deleted = 1
    /\ page_last.rid.page_id = table_page.page_id
    /\ \E k \in 0 .. tuple_count(table_page.data) - 1 :
          SlotAt(table_page.data, k).is_deleted = 0


====
